---- MODULE Spec2Model ----
(***************************************************************************)
(* The core of the bundler: the module graph, its execution order          *)
(* (Graph::sort_modules) and the two-pass linker (Graph::link_exports,     *)
(* Graph::link_imports) of crates/rolldown_core/src/graph.rs.              *)
(*                                                                         *)
(* A build is one behaviour: the source modules are drawn in Init, then    *)
(* generate_module_graph runs fetch_all_modules, sort_modules, link        *)
(* (exports pass, imports pass, one step per importer) and patch.          *)
(***************************************************************************)
EXTENDS Integers, Sequences, FiniteSets, TLC

VARIABLES
  sources,        \* the source modules on disk: statements and their listed order
  entries,        \* Graph.entries
  input_options,  \* Graph.input_options (shim_missing_exports)
  module_by_id,   \* Graph.module_by_id
  uf,             \* Graph.uf, the classes of the symbol union-find
  order_modules,  \* the local order_modules of Graph::link
  cursor,         \* how many ids of order_modules the running pass has consumed
  phase,          \* position inside generate_module_graph
  warnings,       \* what was sent to input_options.on_warn, in order
  result,         \* pending, Ok, or the error generate_module_graph returned
  loader,         \* the ModuleLoader: its driver's state, its tasks, its channel
  plugin_driver,  \* the BuildPluginDriver: its plugins, the calls made, the value returned
  module_task     \* one ModuleTask: its inputs, its resolve jobs, what it returned and sent

vars == <<sources, entries, input_options, module_by_id, uf, order_modules,
          cursor, phase, warnings, result, loader, plugin_driver, module_task>>

-----------------------------------------------------------------------------
(* Module ids. ModuleId carries the external bit.                          *)

NormalIds == {"a", "b", "c"}
ExternalIds == {"E", "F"}
AllIds == NormalIds \cup ExternalIds

is_external(id) == id \in ExternalIds

\* usize::MAX, the initial exec_order of a module ("unset"); the largest
\* value of the type, so that an unset order sorts last.
UsizeMax == 2147483647

-----------------------------------------------------------------------------
(* Generic helpers.                                                        *)

RECURSIVE Perms(_)
Perms(S) ==
  IF S = {} THEN {<<>>}
  ELSE UNION {{<<e>> \o p : p \in Perms(S \ {e})} : e \in S}

Reverse(s) == [i \in 1..Len(s) |-> s[Len(s) + 1 - i]]

SeqRange(s) == {s[i] : i \in 1..Len(s)}

RECURSIVE KSub(_, _)
\* the subsets of S with at most k elements
KSub(S, k) ==
  IF k = 0 THEN {{}}
  ELSE LET P == KSub(S, k - 1) IN P \cup {p \cup {e} : p \in P, e \in S}

-----------------------------------------------------------------------------
(* Source statements: what the scanner reports of a module.                *)
(*   export    export const n = ...            (n may be "default")        *)
(*   reexport  export { n as as } from j                                   *)
(*   star      export * from j                                             *)
(*   import    import { n as <n_j> } from j                                *)
(*   dynimport import(j)                                                   *)

Stmt(kind, m, j, n, as) == [kind |-> kind, m |-> m, j |-> j, n |-> n, as |-> as]

StaticKinds == {"import", "reexport", "star"}

StaticImportees(P, m) == {s.j : s \in {t \in P : t.m = m /\ t.kind \in StaticKinds}}
DynImportees(P, m) == {s.j : s \in {t \in P : t.m = m /\ t.kind = "dynimport"}}

RECURSIVE ReachFrom(_, _)
\* the ids the loader reaches from the set `seen` through static and
\* dynamic dependencies
ReachFrom(P, seen) ==
  LET more == UNION {StaticImportees(P, m) \cup DynImportees(P, m) : m \in seen}
  IN IF more \subseteq seen THEN seen ELSE ReachFrom(P, seen \cup more)

RECURSIVE OrderChoices(_, _)
\* every way the modules of ms can list their static dependencies
OrderChoices(P, ms) ==
  IF ms = {} THEN {<<>>}
  ELSE LET m == CHOOSE x \in ms : TRUE
       IN {f @@ (m :> s) : f \in OrderChoices(P, ms \ {m}),
                            s \in Perms(StaticImportees(P, m))}

-----------------------------------------------------------------------------
(* Symbols.                                                                *)

Symbol(owner, name, id) == [owner |-> owner, name |-> name, id |-> id]

\* the binding a module declares for its local export n
DeclaredSymbol(m, n) == Symbol(m, n, 0)

\* the local binding of `import { n as n_j } from j`
ImportBinding(m, j, n) == Symbol(m, n \o "_" \o j, 0)

\* the local binding of the import statement s of m: the name after `as`
\* where the statement has one
LocalBinding(m, s) ==
  IF s.as = "" THEN ImportBinding(m, s.j, s.n) ELSE Symbol(m, s.as, 0)

-----------------------------------------------------------------------------
(* The modules the loader hands to Graph::add_module.                      *)

ImportedSpecifier(imported, imported_as) ==
  [imported |-> imported, imported_as |-> imported_as]

ExportedSpecifier(exported_as, local_id, owner) ==
  [exported_as |-> exported_as, local_id |-> local_id, owner |-> owner]

LocalExports(P, m) == {s.n : s \in {t \in P : t.m = m /\ t.kind = "export"}}

\* A NormalModule as built from the scan of module m; linked_exports starts
\* as the module's local exports.
NormalModule(P, order, m) ==
  [ id |-> m,
    exec_order |-> UsizeMax,
    dependencies |-> order[m],
    dyn_dependencies |-> DynImportees(P, m),
    imports |-> {[importee |-> s.j,
                  spec |-> ImportedSpecifier(s.n, LocalBinding(m, s))] :
                    s \in {t \in P : t.m = m /\ t.kind = "import"}},
    re_exported_ids |-> {[importee |-> s.j, imported |-> s.n, exported_as |-> s.as] :
                    s \in {t \in P : t.m = m /\ t.kind = "reexport"}},
    re_export_all |-> {s.j : s \in {t \in P : t.m = m /\ t.kind = "star"}},
    external_modules_of_re_export_all |-> {},
    linked_imports |-> {},
    linked_exports |-> [n \in LocalExports(P, m) |->
                          ExportedSpecifier(n, DeclaredSymbol(m, n), m)],
    namespace_referenced |-> FALSE,
    created_symbols |-> 0,
    exported_symbols |-> {} ]

\* An ExternalModule: an id, an order and the interned table of symbols.
ExternalModule(m) ==
  [ id |-> m,
    exec_order |-> UsizeMax,
    dependencies |-> <<>>,
    dyn_dependencies |-> {},
    imports |-> {},
    re_exported_ids |-> {},
    re_export_all |-> {},
    external_modules_of_re_export_all |-> {},
    linked_imports |-> {},
    linked_exports |-> <<>>,
    namespace_referenced |-> FALSE,
    created_symbols |-> 0,
    exported_symbols |-> {} ]

ModuleIds == DOMAIN module_by_id

\* ModuleLoader::fetch_all_modules, as one step: every id reachable from the
\* entries is scanned and added to the graph once.
LoadedGraph(P, order, es) ==
  [m \in ReachFrom(P, SeqRange(es)) |->
     IF is_external(m) THEN ExternalModule(m) ELSE NormalModule(P, order, m)]

-----------------------------------------------------------------------------
(* Graph::sort_modules.                                                    *)

Enter(id) == [action |-> "Enter", id |-> id]
Exit(id)  == [action |-> "Exit", id |-> id]

EnterAll(ids) == [i \in 1..Len(ids) |-> Enter(ids[i])]

Pop(stack) == SubSeq(stack, 1, Len(stack) - 1)
Top(stack) == stack[Len(stack)]

set_exec_order(mods, id, n) == [mods EXCEPT ![id].exec_order = n]

RECURSIVE SortPass1_ordering_on_enter(_, _, _, _, _)
\* the first while loop assigning the order when a module is entered
SortPass1_ordering_on_enter(stack, entered_ids, dynamic_entries, next_exec_order, mods) ==
  IF stack = <<>>
  THEN [entered_ids |-> entered_ids, dynamic_entries |-> dynamic_entries,
        next_exec_order |-> next_exec_order, mods |-> mods]
  ELSE LET id == Top(stack).id IN
       IF Top(stack).action = "Enter" /\ id \notin entered_ids
       THEN SortPass1_ordering_on_enter(
              Pop(stack) \o <<Exit(id)>> \o EnterAll(Reverse(mods[id].dependencies)),
              entered_ids \cup {id},
              dynamic_entries \cup mods[id].dyn_dependencies,
              next_exec_order + 1, set_exec_order(mods, id, next_exec_order))
       ELSE SortPass1_ordering_on_enter(Pop(stack), entered_ids, dynamic_entries,
                                        next_exec_order, mods)

RECURSIVE SortPass1_unreversed(_, _, _, _, _)
\* the first while loop pushing the dependencies as listed, the last on top
SortPass1_unreversed(stack, entered_ids, dynamic_entries, next_exec_order, mods) ==
  IF stack = <<>>
  THEN [entered_ids |-> entered_ids, dynamic_entries |-> dynamic_entries,
        next_exec_order |-> next_exec_order, mods |-> mods]
  ELSE LET id == Top(stack).id IN
       IF Top(stack).action = "Enter"
       THEN IF id \notin entered_ids
            THEN SortPass1_unreversed(Pop(stack) \o <<Exit(id)>>
                                        \o EnterAll(mods[id].dependencies),
                                      entered_ids \cup {id},
                                      dynamic_entries \cup mods[id].dyn_dependencies,
                                      next_exec_order, mods)
            ELSE SortPass1_unreversed(Pop(stack), entered_ids, dynamic_entries,
                                      next_exec_order, mods)
       ELSE SortPass1_unreversed(Pop(stack), entered_ids, dynamic_entries,
                                 next_exec_order + 1,
                                 set_exec_order(mods, id, next_exec_order))

RECURSIVE SortPass1(_, _, _, _, _)
\* the first while loop: static dependencies, dynamic ones collected
SortPass1(stack, entered_ids, dynamic_entries, next_exec_order, mods) ==
  IF stack = <<>>
  THEN [entered_ids |-> entered_ids, dynamic_entries |-> dynamic_entries,
        next_exec_order |-> next_exec_order, mods |-> mods]
  ELSE LET id == Top(stack).id IN
       IF Top(stack).action = "Enter"
       THEN IF id \notin entered_ids
            THEN SortPass1(Pop(stack) \o <<Exit(id)>>
                             \o EnterAll(Reverse(mods[id].dependencies)),
                           entered_ids \cup {id},
                           dynamic_entries \cup mods[id].dyn_dependencies,
                           next_exec_order, mods)
            ELSE SortPass1(Pop(stack), entered_ids, dynamic_entries,
                           next_exec_order, mods)
       ELSE SortPass1(Pop(stack), entered_ids, dynamic_entries,
                      next_exec_order + 1, set_exec_order(mods, id, next_exec_order))

RECURSIVE SortPass2_revisiting(_, _, _, _)
\* the second while loop ordering again a module that was already entered
SortPass2_revisiting(stack, entered_ids, next_exec_order, mods) ==
  IF stack = <<>>
  THEN [entered_ids |-> entered_ids, next_exec_order |-> next_exec_order,
        mods |-> mods]
  ELSE LET id == Top(stack).id IN
       IF Top(stack).action = "Enter" /\ id \notin entered_ids
       THEN SortPass2_revisiting(Pop(stack) \o <<Exit(id)>>
                                   \o EnterAll(Reverse(mods[id].dependencies)),
                                 entered_ids \cup {id}, next_exec_order, mods)
       ELSE SortPass2_revisiting(Pop(stack), entered_ids, next_exec_order + 1,
                                 set_exec_order(mods, id, next_exec_order))

RECURSIVE SortPass2(_, _, _, _)
\* the second while loop: the same sweep from the dynamic entries, which
\* collects no further dynamic dependency
SortPass2(stack, entered_ids, next_exec_order, mods) ==
  IF stack = <<>>
  THEN [entered_ids |-> entered_ids, next_exec_order |-> next_exec_order,
        mods |-> mods]
  ELSE LET id == Top(stack).id IN
       IF Top(stack).action = "Enter"
       THEN IF id \notin entered_ids
            THEN SortPass2(Pop(stack) \o <<Exit(id)>>
                             \o EnterAll(Reverse(mods[id].dependencies)),
                           entered_ids \cup {id}, next_exec_order, mods)
            ELSE SortPass2(Pop(stack), entered_ids, next_exec_order, mods)
       ELSE SortPass2(Pop(stack), entered_ids, next_exec_order + 1,
                      set_exec_order(mods, id, next_exec_order))

\* the graphs sort_modules can leave: dynamic_entries is a hash set, so the
\* second sweep starts from its ids in any order
SortedGraphs(mods, es) ==
  LET pass1 == SortPass1(EnterAll(Reverse(es)), {}, {}, 0, mods)
  IN {SortPass2(EnterAll(stack), pass1.entered_ids, pass1.next_exec_order,
                pass1.mods).mods : stack \in Perms(pass1.dynamic_entries)}

-----------------------------------------------------------------------------
(* The symbol union-find: the set of its classes of more than one symbol.  *)

ClassOf(u, a) == IF \E c \in u : a \in c THEN CHOOSE c \in u : a \in c ELSE {a}

\* UnionFind::union
Union(u, a, b) ==
  LET ca == ClassOf(u, a)
      cb == ClassOf(u, b)
      merged == ca \cup cb
  IN IF Cardinality(merged) = 1 THEN u
     ELSE (u \ {ca, cb}) \cup {merged}

\* the equivalence query
Same(u, a, b) == a = b \/ \E c \in u : a \in c /\ b \in c

-----------------------------------------------------------------------------
(* The methods of NormalModule and ExternalModule the linker calls.        *)

\* Option<T>: <<>> is None, <<v>> is Some(v)
None == <<>>
Some(v) == <<v>>

find_exported(module, name) ==
  IF name \in DOMAIN module.linked_exports
  THEN Some(module.linked_exports[name])
  ELSE None

add_to_linked_exports(module, name, spec) ==
  [module EXCEPT !.linked_exports = (name :> spec) @@ @]

add_to_linked_imports(module, owner, spec) ==
  [module EXCEPT !.linked_imports = @ \cup {[owner |-> owner, spec |-> spec]}]

mark_namespace_id_referenced(module) ==
  [module EXCEPT !.namespace_referenced = TRUE]

\* the symbol create_top_level_symbol returns, and the module after the call
top_level_symbol(module, name) == Symbol(module.id, name, module.created_symbols + 1)
create_top_level_symbol(module, name) ==
  [module EXCEPT !.created_symbols = @ + 1]

\* NormalModule::shim_missing_export: a synthesized binding of that name,
\* exported under it
shim_missing_export(module, name) ==
  add_to_linked_exports(create_top_level_symbol(module, name), name,
                        ExportedSpecifier(name, top_level_symbol(module, name), module.id))

\* ExternalModule::find_exported_symbol: the interned symbol of a name
find_exported_symbol(module, name) == Symbol(module.id, name, 0)
intern_exported_symbol(module, name) ==
  [module EXCEPT !.exported_symbols = @ \cup {name}]

\* shim_missing_export_if_needed returning false on the branch that shims
shim_missing_export_if_needed_returning_false(importee, imported_name) ==
  IF find_exported(importee, imported_name) # None
  THEN [shimmed |-> FALSE, importee |-> importee]
  ELSE [shimmed |-> FALSE, importee |-> shim_missing_export(importee, imported_name)]

\* shim_missing_export_if_needed without the lookup: it shims every time
shim_missing_export_if_needed_every_time(importee, imported_name) ==
  [shimmed |-> TRUE, importee |-> shim_missing_export(importee, imported_name)]

\* shim_missing_export_if_needed: [shimmed, importee]
shim_missing_export_if_needed(importee, imported_name) ==
  IF find_exported(importee, imported_name) # None
  THEN [shimmed |-> FALSE, importee |-> importee]
  ELSE [shimmed |-> TRUE, importee |-> shim_missing_export(importee, imported_name)]

-----------------------------------------------------------------------------
(* BuildError values.                                                      *)

NoError == [kind |-> "none"]
circular_reexport(name, file) ==
  [kind |-> "CircularReExport", name |-> name, file |-> file]
missing_export(name, importer, importee) ==
  [kind |-> "MissingExport", name |-> name, importer |-> importer, importee |-> importee]
shimmed_export(name, file) ==
  [kind |-> "ShimmedExport", name |-> name, file |-> file]
ambiguous_external_namespaces(name, importee, chosen, candidates) ==
  [kind |-> "AmbiguousExternalNamespaces", name |-> name, importee |-> importee,
   chosen |-> chosen, candidates |-> candidates]

\* The linker's working state: the modules, the union-find, the warnings
\* sent so far and the error that stopped it (NoError while it runs).
LinkState(mods, u, warns, err) ==
  [mods |-> mods, uf |-> u, warnings |-> warns, err |-> err]

-----------------------------------------------------------------------------
(* Graph::link_exports, the step of one importer.                          *)

\* the orders in which a hash map of importee -> set of specifiers can be
\* walked: the specifiers of one importee come together
Contiguous(p) ==
  \A i, j, k \in 1..Len(p) :
    (i < j /\ j < k /\ p[i].importee = p[k].importee) => p[j].importee = p[i].importee

GroupedOrders(S) == {p \in Perms(S) : Contiguous(p)}

\* ReExportFromSelf treating the importer as any normal importee: a missing
\* name is shimmed
ReExportFromSelf_shimming(L, importer_id, spec) ==
  LET sh == shim_missing_export_if_needed(L.mods[importer_id], spec.imported)
      original_spec == find_exported(sh.importee, spec.imported)
  IN [L EXCEPT !.mods[importer_id] =
                  add_to_linked_exports(sh.importee, spec.exported_as, original_spec[1]),
               !.warnings = IF sh.shimmed
                            THEN Append(@, shimmed_export(spec.imported, importer_id))
                            ELSE @]

\* `export { imported as exported_as } from <the importer itself>`
ReExportFromSelf(L, importer_id, spec) ==
  LET importee == L.mods[importer_id]
      original_spec == find_exported(importee, spec.imported)
  IN IF original_spec # None
     THEN [L EXCEPT !.mods[importer_id] =
                       add_to_linked_exports(importee, spec.exported_as, original_spec[1])]
     ELSE [L EXCEPT !.err = circular_reexport(spec.imported, importer_id)]

\* `export { imported as exported_as } from importee`, a normal module
ReExportFromNormal(L, importer_id, spec, shim) ==
  LET importee_id == spec.importee
      sh == IF shim
            THEN shim_missing_export_if_needed(L.mods[importee_id], spec.imported)
            ELSE [shimmed |-> FALSE, importee |-> L.mods[importee_id]]
      warns == IF sh.shimmed
               THEN Append(L.warnings, shimmed_export(spec.imported, importee_id))
               ELSE L.warnings
      original_spec == find_exported(sh.importee, spec.imported)
      mods1 == [L.mods EXCEPT ![importee_id] = sh.importee]
  IN IF original_spec # None
     THEN [L EXCEPT !.mods = [mods1 EXCEPT ![importer_id] =
                       add_to_linked_exports(mods1[importer_id], spec.exported_as,
                                             original_spec[1])],
                    !.warnings = warns]
     ELSE [L EXCEPT !.mods = mods1, !.warnings = warns,
                    !.err = missing_export(spec.imported, importer_id, importee_id)]

\* ReExportFromExternal with the fresh symbol always named after exported_as,
\* "default" included
ReExportFromExternal_named_after_exported_as(L, importer_id, spec) ==
  LET importer == L.mods[importer_id]
      symbol_in_importer == top_level_symbol(importer, spec.exported_as)
      importer1 == create_top_level_symbol(importer, spec.exported_as)
      importer2 == add_to_linked_imports(importer1, spec.importee,
                     ImportedSpecifier(spec.imported, symbol_in_importer))
      importer3 == add_to_linked_exports(importer2, spec.exported_as,
                     ExportedSpecifier(spec.exported_as, symbol_in_importer, importer_id))
  IN [L EXCEPT !.mods[importer_id] = importer3]

\* `export { imported as exported_as } from importee`, an external module:
\* rewritten to an import of a fresh symbol and a local export of it
\* ReExportFromExternal binding the fresh symbol to the interned one at once
ReExportFromExternal_with_union(L, importer_id, spec) ==
  LET importer == L.mods[importer_id]
      name == IF spec.exported_as # "default" THEN spec.exported_as ELSE spec.imported
      symbol_in_importer == top_level_symbol(importer, name)
      importer1 == create_top_level_symbol(importer, name)
      importer2 == add_to_linked_imports(importer1, spec.importee,
                     ImportedSpecifier(spec.imported, symbol_in_importer))
      importer3 == add_to_linked_exports(importer2, spec.exported_as,
                     ExportedSpecifier(spec.exported_as, symbol_in_importer, importer_id))
  IN [L EXCEPT !.mods[importer_id] = importer3,
               !.uf = Union(L.uf, symbol_in_importer,
                            Symbol(spec.importee, spec.imported, 0))]

ReExportFromExternal(L, importer_id, spec) ==
  LET importer == L.mods[importer_id]
      name == IF spec.exported_as # "default" THEN spec.exported_as ELSE spec.imported
      symbol_in_importer == top_level_symbol(importer, name)
      importer1 == create_top_level_symbol(importer, name)
      importer2 == add_to_linked_imports(importer1, spec.importee,
                     ImportedSpecifier(spec.imported, symbol_in_importer))
      importer3 == add_to_linked_exports(importer2, spec.exported_as,
                     ExportedSpecifier(spec.exported_as, symbol_in_importer, importer_id))
  IN [L EXCEPT !.mods[importer_id] = importer3]

ReExportOne(L, importer_id, spec, shim) ==
  IF importer_id = spec.importee THEN ReExportFromSelf(L, importer_id, spec)
  ELSE IF ~is_external(spec.importee) THEN ReExportFromNormal(L, importer_id, spec, shim)
  ELSE ReExportFromExternal(L, importer_id, spec)

RECURSIVE ReExportAllOf_past_error(_, _, _, _)
\* ReExportAllOf going on to the next specifier after one has failed
ReExportAllOf_past_error(L, importer_id, specs, shim) ==
  IF specs = <<>> THEN L
  ELSE ReExportAllOf_past_error(ReExportOne(L, importer_id, Head(specs), shim),
                                importer_id, Tail(specs), shim)

RECURSIVE ReExportAllOf(_, _, _, _)
\* the named re-exports of the importer in the order `specs`, up to the
\* first error
ReExportAllOf(L, importer_id, specs, shim) ==
  IF specs = <<>> \/ L.err # NoError THEN L
  ELSE ReExportAllOf(ReExportOne(L, importer_id, Head(specs), shim),
                     importer_id, Tail(specs), shim)

\* the names on which the normal `export *` sources agree
non_conflicted_names(mods, sources_of_star) ==
  LET normal == {j \in sources_of_star : ~is_external(j)}
      names == UNION {DOMAIN mods[j].linked_exports : j \in normal}
  IN {n \in names :
        \A j1, j2 \in normal :
          (n \in DOMAIN mods[j1].linked_exports /\ n \in DOMAIN mods[j2].linked_exports)
            => mods[j1].linked_exports[n] = mods[j2].linked_exports[n]}

\* StarCopies without the filter of the names the importer exports explicitly
StarCopies_over_explicit(name, explicit_exported_names_of_importer, non_conflicted) ==
  /\ name # "default"
  /\ name \in non_conflicted

\* StarCopies without the filter of "default"
StarCopies_with_default(name, explicit_exported_names_of_importer, non_conflicted) ==
  /\ name \notin explicit_exported_names_of_importer
  /\ name \in non_conflicted

\* whether the wildcard step copies name of the importee into the importer
StarCopies(name, explicit_exported_names_of_importer, non_conflicted) ==
  /\ name # "default"
  /\ name \notin explicit_exported_names_of_importer
  /\ name \in non_conflicted

\* one `export *` source of the importer
ExportStarFrom(mods, importer_id, importee_id, explicit, non_conflicted) ==
  IF importee_id = importer_id THEN mods
  ELSE IF ~is_external(importee_id)
  THEN LET importee == mods[importee_id]
           copied == {n \in DOMAIN importee.linked_exports :
                        StarCopies(n, explicit, non_conflicted)}
       IN [mods EXCEPT ![importer_id] =
             [@ EXCEPT !.re_export_all = @ \cup importee.re_export_all,
                       !.linked_exports =
                          [n \in copied |-> importee.linked_exports[n]] @@ @]]
  ELSE [mods EXCEPT ![importer_id].external_modules_of_re_export_all =
                       @ \cup {importee_id}]

RECURSIVE ExportStarAll(_, _, _, _, _)
ExportStarAll(mods, importer_id, importees, explicit, non_conflicted) ==
  IF importees = <<>> THEN mods
  ELSE ExportStarAll(
         ExportStarFrom(mods, importer_id, Head(importees), explicit, non_conflicted),
         importer_id, Tail(importees), explicit, non_conflicted)

\* "Process re-export all"
ProcessReExportAll(L, importer_id, importees) ==
  LET explicit == DOMAIN L.mods[importer_id].linked_exports
      non_conflicted == non_conflicted_names(L.mods, SeqRange(importees))
  IN [L EXCEPT !.mods = ExportStarAll(L.mods, importer_id, importees, explicit,
                                      non_conflicted)]

-----------------------------------------------------------------------------
(* Graph::link_imports, the step of one importer.                          *)

\* the exported names in the order of their strings
NameOrder == <<"*", "default", "x", "y">>
NameRank(n) == CHOOSE i \in 1..Len(NameOrder) : NameOrder[i] = n

\* a self-import: the specifiers are sorted by `imported`
SelfSorted(p, importer_id) ==
  \A i, j \in 1..Len(p) :
    (i < j /\ p[i].importee = importer_id /\ p[j].importee = importer_id)
      => NameRank(p[i].spec.imported) <= NameRank(p[j].spec.imported)

ImportOrders(S, importer_id) == {p \in GroupedOrders(S) : SelfSorted(p, importer_id)}

\* LinkToExported without the union of the two symbols
LinkToExported_without_union(L, writer_id, imported_spec, exported_spec) ==
  [L EXCEPT !.mods[writer_id] =
               add_to_linked_imports(@, exported_spec.owner,
                 ImportedSpecifier(exported_spec.exported_as, imported_spec.imported_as))]

\* the hit of find_exported: union, and the linked import keyed by the owner
\* of the exported symbol, written onto `writer`
LinkToExported(L, writer_id, imported_spec, exported_spec) ==
  [L EXCEPT !.uf = Union(L.uf, imported_spec.imported_as, exported_spec.local_id),
            !.mods[writer_id] =
               add_to_linked_imports(@, exported_spec.owner,
                 ImportedSpecifier(exported_spec.exported_as, imported_spec.imported_as))]

\* `import * as ns`: the namespace of the importee is referenced
MarkStep(L, importee_id, imported) ==
  IF imported = "*"
  THEN [L EXCEPT !.mods[importee_id] = mark_namespace_id_referenced(@)]
  ELSE L

\* the imports pass without its shim step
ShimStep_skipped(L, importee_id, imported, shim) == L

\* the shim step of the imports pass: [importee, warnings]
ShimStep(L, importee_id, imported, shim) ==
  LET sh == IF shim
            THEN shim_missing_export_if_needed(L.mods[importee_id], imported)
            ELSE [shimmed |-> FALSE, importee |-> L.mods[importee_id]]
  IN [L EXCEPT !.mods[importee_id] = sh.importee,
               !.warnings = IF sh.shimmed
                            THEN Append(@, shimmed_export(imported, importee_id))
                            ELSE @]

\* "Handle self import"
ImportFromSelf(L, importer_id, imported_spec, shim) ==
  LET L1 == ShimStep(MarkStep(L, importer_id, imported_spec.imported),
                     importer_id, imported_spec.imported, shim)
      exported_spec == find_exported(L1.mods[importer_id], imported_spec.imported)
  IN IF exported_spec # None
     THEN LinkToExported(L1, importer_id, imported_spec, exported_spec[1])
     ELSE [L1 EXCEPT !.err = missing_export(imported_spec.imported, importer_id,
                                            importer_id)]

\* ImportThroughExternal treating several external sources as an error
ImportThroughExternal_failing_when_ambiguous(L, importer_id, importee_id, imported_spec, first_external_id) ==
  LET externals == L.mods[importee_id].external_modules_of_re_export_all
  IN IF Cardinality(externals) > 1
     THEN [L EXCEPT !.warnings =
                       Append(@, ambiguous_external_namespaces(imported_spec.imported_as.name,
                                   importee_id, first_external_id, externals)),
                    !.err = missing_export(imported_spec.imported, importer_id, importee_id)]
     ELSE [L EXCEPT !.mods[importer_id] =
                       add_to_linked_imports(@, importee_id,
                         ImportedSpecifier(imported_spec.imported, imported_spec.imported_as))]

\* the miss on an importee with `export * from <external>`: the name is
\* taken to come from the first external module
\* ImportThroughExternal leaving the importee without the new export
ImportThroughExternal_without_export(L, importer_id, importee_id, imported_spec, first_external_id) ==
  LET importee == L.mods[importee_id]
      symbol_in_importee == top_level_symbol(importee, imported_spec.imported_as.name)
      importee1 == create_top_level_symbol(importee, imported_spec.imported_as.name)
      importee2 == add_to_linked_imports(importee1, first_external_id,
                     ImportedSpecifier(imported_spec.imported, symbol_in_importee))
      mods1 == [L.mods EXCEPT ![importee_id] = importee2]
      mods2 == [mods1 EXCEPT ![importer_id] =
                  add_to_linked_imports(@, importee_id,
                    ImportedSpecifier(imported_spec.imported, imported_spec.imported_as))]
  IN [L EXCEPT !.mods = mods2,
               !.uf = Union(L.uf, imported_spec.imported_as, symbol_in_importee)]

ImportThroughExternal(L, importer_id, importee_id, imported_spec, first_external_id) ==
  LET importee == L.mods[importee_id]
      externals == importee.external_modules_of_re_export_all
      warns == IF Cardinality(externals) > 1
               THEN Append(L.warnings,
                      ambiguous_external_namespaces(imported_spec.imported_as.name,
                        importee_id, first_external_id, externals))
               ELSE L.warnings
      symbol_in_importee == top_level_symbol(importee, imported_spec.imported_as.name)
      importee1 == create_top_level_symbol(importee, imported_spec.imported_as.name)
      importee2 == add_to_linked_imports(importee1, first_external_id,
                     ImportedSpecifier(imported_spec.imported, symbol_in_importee))
      importee3 == add_to_linked_exports(importee2, imported_spec.imported,
                     ExportedSpecifier(imported_spec.imported, symbol_in_importee,
                                       importee_id))
      mods1 == [L.mods EXCEPT ![importee_id] = importee3]
      mods2 == [mods1 EXCEPT ![importer_id] =
                  add_to_linked_imports(@, importee_id,
                    ImportedSpecifier(imported_spec.imported, imported_spec.imported_as))]
  IN [L EXCEPT !.mods = mods2, !.warnings = warns,
               !.uf = Union(L.uf, imported_spec.imported_as, symbol_in_importee)]

\* ImportFromNormal with the linked import keyed by the syntactic importee
\* instead of the owner of the exported symbol
ImportFromNormal_keyed_by_importee(L, importer_id, importee_id, imported_spec, shim, hash_order) ==
  LET L1 == ShimStep(MarkStep(L, importee_id, imported_spec.imported),
                     importee_id, imported_spec.imported, shim)
      importee == L1.mods[importee_id]
      exported_spec == find_exported(importee, imported_spec.imported)
      externals == importee.external_modules_of_re_export_all
  IN IF exported_spec # None
     THEN LinkToExported(L1, importer_id, imported_spec,
                         [exported_spec[1] EXCEPT !.owner = importee_id])
     ELSE IF externals # {}
     THEN ImportThroughExternal(L1, importer_id, importee_id, imported_spec,
            hash_order[CHOOSE i \in 1..Len(hash_order) :
                         /\ hash_order[i] \in externals
                         /\ \A k \in 1..(i - 1) : hash_order[k] \notin externals])
     ELSE [L1 EXCEPT !.err = missing_export(imported_spec.imported, importer_id,
                                            importee_id)]

\* ImportFromNormal leaving a name found nowhere unlinked, without an error
ImportFromNormal_ignoring_miss(L, importer_id, importee_id, imported_spec, shim, hash_order) ==
  LET L1 == ShimStep(MarkStep(L, importee_id, imported_spec.imported),
                     importee_id, imported_spec.imported, shim)
      importee == L1.mods[importee_id]
      exported_spec == find_exported(importee, imported_spec.imported)
      externals == importee.external_modules_of_re_export_all
  IN IF exported_spec # None
     THEN LinkToExported(L1, importer_id, imported_spec, exported_spec[1])
     ELSE IF externals # {}
     THEN ImportThroughExternal(L1, importer_id, importee_id, imported_spec,
            hash_order[CHOOSE i \in 1..Len(hash_order) :
                         /\ hash_order[i] \in externals
                         /\ \A k \in 1..(i - 1) : hash_order[k] \notin externals])
     ELSE L1

\* ImportFromNormal taking the fallback again for a name an earlier fallback
\* exported
ImportFromNormal_falling_back_again(L, importer_id, importee_id, imported_spec, shim, hash_order) ==
  LET L1 == ShimStep(MarkStep(L, importee_id, imported_spec.imported),
                     importee_id, imported_spec.imported, shim)
      importee == L1.mods[importee_id]
      exported_spec == find_exported(importee, imported_spec.imported)
      externals == importee.external_modules_of_re_export_all
  IN IF exported_spec # None /\ (externals = {} \/ exported_spec[1].local_id.id = 0)
     THEN LinkToExported(L1, importer_id, imported_spec, exported_spec[1])
     ELSE IF externals # {}
     THEN ImportThroughExternal(L1, importer_id, importee_id, imported_spec,
            hash_order[CHOOSE i \in 1..Len(hash_order) :
                         /\ hash_order[i] \in externals
                         /\ \A k \in 1..(i - 1) : hash_order[k] \notin externals])
     ELSE [L1 EXCEPT !.err = missing_export(imported_spec.imported, importer_id,
                                            importee_id)]

\* an import from another normal module
ImportFromNormal(L, importer_id, importee_id, imported_spec, shim, hash_order) ==
  LET L1 == ShimStep(MarkStep(L, importee_id, imported_spec.imported),
                     importee_id, imported_spec.imported, shim)
      importee == L1.mods[importee_id]
      exported_spec == find_exported(importee, imported_spec.imported)
      externals == importee.external_modules_of_re_export_all
  IN IF exported_spec # None
     THEN LinkToExported(L1, importer_id, imported_spec, exported_spec[1])
     ELSE IF externals # {}
     THEN ImportThroughExternal(L1, importer_id, importee_id, imported_spec,
            hash_order[CHOOSE i \in 1..Len(hash_order) :
                         /\ hash_order[i] \in externals
                         /\ \A k \in 1..(i - 1) : hash_order[k] \notin externals])
     ELSE [L1 EXCEPT !.err = missing_export(imported_spec.imported, importer_id,
                                            importee_id)]

\* ImportFromExternal without the union with the interned symbol
ImportFromExternal_without_union(L, importer_id, importee_id, imported_spec) ==
  [L EXCEPT !.mods = [L.mods EXCEPT
                  ![importer_id] = add_to_linked_imports(@, importee_id, imported_spec),
                  ![importee_id] = intern_exported_symbol(@, imported_spec.imported)]]

\* ImportFromExternal with one interned symbol for all names of the module
ImportFromExternal_one_symbol(L, importer_id, importee_id, imported_spec) ==
  LET importee == L.mods[importee_id]
      mods1 == [L.mods EXCEPT
                  ![importer_id] = add_to_linked_imports(@, importee_id, imported_spec),
                  ![importee_id] = intern_exported_symbol(@, imported_spec.imported)]
  IN [L EXCEPT !.mods = mods1,
               !.uf = Union(Union(L.uf, imported_spec.imported_as,
                                  find_exported_symbol(importee, imported_spec.imported)),
                            imported_spec.imported_as,
                            find_exported_symbol(importee, "x"))]

\* an import from an external module
ImportFromExternal(L, importer_id, importee_id, imported_spec) ==
  LET importee == L.mods[importee_id]
      exported_symbol_of_importee == find_exported_symbol(importee, imported_spec.imported)
      mods1 == [L.mods EXCEPT
                  ![importer_id] = add_to_linked_imports(@, importee_id, imported_spec),
                  ![importee_id] = intern_exported_symbol(@, imported_spec.imported)]
  IN [L EXCEPT !.mods = mods1,
               !.uf = Union(L.uf, imported_spec.imported_as, exported_symbol_of_importee)]

ImportOne(L, importer_id, import, shim, hash_order) ==
  IF importer_id = import.importee
  THEN ImportFromSelf(L, importer_id, import.spec, shim)
  ELSE IF ~is_external(import.importee)
  THEN ImportFromNormal(L, importer_id, import.importee, import.spec, shim, hash_order)
  ELSE ImportFromExternal(L, importer_id, import.importee, import.spec)

RECURSIVE LinkImportsOf(_, _, _, _, _)
\* the closure link_imports runs for one importer: its imports in the order
\* `imports`, up to the first error
LinkImportsOf(L, importer_id, imports, shim, hash_order) ==
  IF imports = <<>> \/ L.err # NoError THEN L
  ELSE LinkImportsOf(ImportOne(L, importer_id, Head(imports), shim, hash_order),
                     importer_id, Tail(imports), shim, hash_order)

-----------------------------------------------------------------------------
(* Graph::link as one run over a given order_modules.  The containers a    *)
(* module is scanned into are hash maps and sets with a fixed hasher: for  *)
(* one set of source modules they are walked in the same order in every    *)
(* run, whatever order that is.                                            *)

walk_re_exported_ids(S) == CHOOSE p \in GroupedOrders(S) : TRUE
walk_re_export_all(S) == CHOOSE p \in Perms(S) : TRUE
walk_imports(S, importer_id) == CHOOSE p \in ImportOrders(S, importer_id) : TRUE
walk_externals == CHOOSE h \in Perms(ExternalIds) : TRUE

RECURSIVE LinkExportsRun(_, _, _)
\* Graph::link_exports over the ids `order`, up to the first error
LinkExportsRun(L, order, shim) ==
  IF order = <<>> \/ L.err # NoError THEN L
  ELSE LET importer_id == Head(order) IN
       IF is_external(importer_id) THEN LinkExportsRun(L, Tail(order), shim)
       ELSE LET L1 == ReExportAllOf(L, importer_id,
                        walk_re_exported_ids(L.mods[importer_id].re_exported_ids), shim)
            IN IF L1.err # NoError THEN L1
               ELSE LinkExportsRun(
                      ProcessReExportAll(L1, importer_id,
                        walk_re_export_all(L1.mods[importer_id].re_export_all)),
                      Tail(order), shim)

RECURSIVE LinkImportsRun(_, _, _)
\* Graph::link_imports over the ids `order`, up to the first error
LinkImportsRun(L, order, shim) ==
  IF order = <<>> \/ L.err # NoError THEN L
  ELSE LET importer_id == Head(order) IN
       IF is_external(importer_id) THEN LinkImportsRun(L, Tail(order), shim)
       ELSE LinkImportsRun(
              LinkImportsOf(L, importer_id,
                walk_imports(L.mods[importer_id].imports, importer_id), shim,
                walk_externals),
              Tail(order), shim)

\* Graph::link on the modules mods, the list of module_by_id.values() sorted
\* into `order`
LinkRun(mods, order, shim) ==
  LET L1 == LinkExportsRun(LinkState(mods, {}, <<>>, NoError), order, shim)
  IN IF L1.err # NoError THEN L1 ELSE LinkImportsRun(L1, order, shim)

-----------------------------------------------------------------------------
(* Graph::generate_module_graph: the steps of a build.                     *)

Pending == [kind |-> "pending"]
Ok == [kind |-> "Ok"]

\* ModuleLoader::fetch_all_modules
fetch_all_modules ==
  /\ phase = "fetch"
  /\ entries' = input_options.input
  /\ module_by_id' = LoadedGraph(sources.stmts, sources.order, input_options.input)
  /\ phase' = "sort_modules"
  /\ UNCHANGED <<sources, input_options, uf, order_modules, cursor, warnings, result,
                 loader,
                 plugin_driver, module_task>>

sort_modules ==
  /\ phase = "sort_modules"
  /\ module_by_id' \in SortedGraphs(module_by_id, entries)
  /\ phase' = "link"
  /\ UNCHANGED <<sources, entries, input_options, uf, order_modules, cursor,
                 warnings, result, loader,
                 plugin_driver, module_task>>

\* the ids sorted by exec_order the wrong way round
SortedByExecOrder_descending(mods) ==
  {p \in Perms(DOMAIN mods) :
     \A i, j \in 1..Len(p) : i < j => mods[p[i]].exec_order >= mods[p[j]].exec_order}

\* sort_unstable_by_key(exec_order): ids of equal order come in any order
SortedByExecOrder(mods) ==
  {p \in Perms(DOMAIN mods) :
     \A i, j \in 1..Len(p) : i < j => mods[p[i]].exec_order <= mods[p[j]].exec_order}

\* Graph::link, up to the call of link_exports
link ==
  /\ phase = "link"
  /\ order_modules' \in SortedByExecOrder(module_by_id)
  /\ cursor' = 0
  /\ phase' = "link_exports"
  /\ UNCHANGED <<sources, entries, input_options, module_by_id, uf, warnings, result,
                 loader,
                 plugin_driver, module_task>>

\* the next id of order_modules that passes the filter !is_external
HasNextImporter(c) == \E i \in (c + 1)..Len(order_modules) : ~is_external(order_modules[i])
NextImporter(c) ==
  CHOOSE i \in (c + 1)..Len(order_modules) :
    /\ ~is_external(order_modules[i])
    /\ \A k \in (c + 1)..(i - 1) : is_external(order_modules[k])

\* the step's effect on the graph
Leaves(L) ==
  /\ module_by_id' = L.mods
  /\ uf' = L.uf
  /\ warnings' = L.warnings

\* after the step of the importer at index i: the next importer of this
\* pass, or the next pass
Advance(i, this_pass, next_pass) ==
  IF HasNextImporter(i)
  THEN phase' = this_pass /\ cursor' = i
  ELSE phase' = next_pass /\ cursor' = 0

\* the exports pass, one importer: its named re-exports (re_exported_ids)
link_exports ==
  /\ phase = "link_exports"
  /\ LET i == NextImporter(cursor)
         importer_id == order_modules[i]
     IN \E specs \in GroupedOrders(module_by_id[importer_id].re_exported_ids) :
          LET L == ReExportAllOf(LinkState(module_by_id, uf, warnings, NoError),
                                 importer_id, specs,
                                 input_options.shim_missing_exports)
          IN /\ Leaves(L)
             /\ cursor' = i
             /\ IF L.err # NoError
                THEN result' = L.err /\ phase' = "done"
                ELSE result' = result /\ phase' = "process_re_export_all"
  /\ UNCHANGED <<sources, entries, input_options, order_modules, loader,
                 plugin_driver, module_task>>

\* the exports pass, the same importer: "Process re-export all"
process_re_export_all ==
  /\ phase = "process_re_export_all"
  /\ LET importer_id == order_modules[cursor]
     IN \E importees \in Perms(module_by_id[importer_id].re_export_all) :
          Leaves(ProcessReExportAll(LinkState(module_by_id, uf, warnings, NoError),
                                    importer_id, importees))
  /\ Advance(cursor, "link_exports", "link_imports")
  /\ UNCHANGED <<sources, entries, input_options, order_modules, result, loader,
                 plugin_driver, module_task>>

\* the imports pass, one importer
link_imports ==
  /\ phase = "link_imports"
  /\ LET i == NextImporter(cursor)
         importer_id == order_modules[i]
     IN \E imports \in ImportOrders(module_by_id[importer_id].imports, importer_id),
           hash_order \in Perms(ExternalIds) :
          LET L == LinkImportsOf(LinkState(module_by_id, uf, warnings, NoError),
                                 importer_id, imports,
                                 input_options.shim_missing_exports, hash_order)
          IN /\ Leaves(L)
             /\ IF L.err # NoError
                THEN result' = L.err /\ phase' = "done" /\ cursor' = i
                ELSE result' = result /\ Advance(i, "link_imports", "patch")
  /\ UNCHANGED <<sources, entries, input_options, order_modules, loader,
                 plugin_driver, module_task>>

\* Graph::patch: the namespace export of each normal module is generated in
\* its AST; the linked graph is left as it is
patch ==
  /\ phase = "patch"
  /\ phase' = "done"
  /\ result' = Ok
  /\ UNCHANGED <<sources, entries, input_options, module_by_id, uf, order_modules,
                 cursor, warnings, loader,
                 plugin_driver, module_task>>

Next ==
  \/ fetch_all_modules
  \/ sort_modules
  \/ link
  \/ link_exports
  \/ process_re_export_all
  \/ link_imports
  \/ patch

-----------------------------------------------------------------------------
(* ModuleLoader::fetch_all_modules step by step: the driver, the module    *)
(* tasks it spawns and the channel on which they report.                   *)

parse_js_failed(file) == [kind |-> "ParseFailed", file |-> file]

\* Errors, the batch the loader returns
Errors(errs) == [kind |-> "Errors", errors |-> errs]

\* Msg, what a module task sends upstream
Scanned(id) == [kind |-> "Scanned", module_id |-> id]
Error(id) == [kind |-> "Error", module_id |-> id, err |-> parse_js_failed(id)]

\* ModuleLoader::new: nothing visited, nothing in flight.  `spawned` and
\* `added` record, in order, the ids a task was spawned for and the ids
\* handed to Graph::add_module.
NewLoader ==
  [visited |-> {}, remaining |-> 0, tasks |-> {}, channel |-> <<>>,
   errors |-> <<>>, spawned |-> <<>>, added |-> <<>>]

\* Graph::add_module
add_module(mods, module) == (module.id :> module) @@ mods

\* a module task is spawned for id
Spawn(l, id) ==
  [l EXCEPT !.visited = @ \cup {id},
            !.remaining = @ + 1,
            !.tasks = @ \cup {[id |-> id, n |-> Len(l.spawned) + 1]},
            !.spawned = Append(@, id)]

\* the driver meets a resolved id: one not yet visited is marked, and a task
\* is spawned for it; an external module has no source and enters the graph
\* as it is
Discover(S, id) ==
  IF id \in S.l.visited THEN S
  ELSE IF is_external(id)
  THEN [l |-> [S.l EXCEPT !.visited = @ \cup {id}, !.added = Append(@, id)],
        mods |-> add_module(S.mods, ExternalModule(id))]
  ELSE [S EXCEPT !.l = Spawn(S.l, id)]

RECURSIVE DiscoverAll(_, _)
DiscoverAll(S, ids) ==
  IF ids = <<>> THEN S ELSE DiscoverAll(Discover(S, Head(ids)), Tail(ids))

\* the entries are resolved, marked and their tasks spawned
spawn_entries ==
  /\ phase = "fetch"
  /\ LET S == DiscoverAll([l |-> loader, mods |-> module_by_id], input_options.input)
     IN loader' = S.l /\ module_by_id' = S.mods
  /\ entries' = input_options.input
  /\ phase' = "loading"
  /\ UNCHANGED <<sources, input_options, uf, order_modules, cursor, warnings, result,
                 plugin_driver, module_task>>

\* a ModuleTask::run that reports its result twice
module_task_run_sending_twice ==
  /\ \E task \in loader.tasks :
       LET msg == IF task.id \in sources.broken THEN Error(task.id) ELSE Scanned(task.id)
       IN loader' = [loader EXCEPT !.tasks = @ \ {task},
                                   !.channel = Append(Append(@, msg), msg)]
  /\ UNCHANGED <<sources, entries, input_options, module_by_id, uf, order_modules,
                 cursor, phase, warnings, result,
                 plugin_driver, module_task>>

\* a ModuleTask::run that reports a result and is silent on an error
module_task_run_silent_on_error ==
  /\ \E task \in loader.tasks :
       loader' = [loader EXCEPT
                    !.tasks = @ \ {task},
                    !.channel = IF task.id \in sources.broken
                                THEN @ ELSE Append(@, Scanned(task.id))]
  /\ UNCHANGED <<sources, entries, input_options, module_by_id, uf, order_modules,
                 cursor, phase, warnings, result,
                 plugin_driver, module_task>>

\* ModuleTask::run: run_inner, then one message, Scanned or Error
module_task_run ==
  /\ \E task \in loader.tasks :
       loader' = [loader EXCEPT
                    !.tasks = @ \ {task},
                    !.channel = Append(@, IF task.id \in sources.broken
                                          THEN Error(task.id)
                                          ELSE Scanned(task.id))]
  /\ UNCHANGED <<sources, entries, input_options, module_by_id, uf, order_modules,
                 cursor, phase, warnings, result,
                 plugin_driver, module_task>>

\* the driver has a message to receive
Receives(kind) ==
  /\ phase = "loading"
  /\ loader.remaining > 0
  /\ loader.channel # <<>>
  /\ Head(loader.channel).kind = kind

\* the driver receives Scanned: the module enters the graph and its
\* resolved dependencies are met
recv_scanned ==
  /\ Receives("Scanned")
  /\ LET id == Head(loader.channel).module_id
         l0 == [loader EXCEPT !.channel = Tail(@), !.remaining = @ - 1,
                              !.added = Append(@, id)]
         mods0 == add_module(module_by_id,
                             NormalModule(sources.stmts, sources.order, id))
     IN \E dyn \in Perms(DynImportees(sources.stmts, id)) :
          LET S == DiscoverAll([l |-> l0, mods |-> mods0], sources.order[id] \o dyn)
          IN loader' = S.l /\ module_by_id' = S.mods
  /\ UNCHANGED <<sources, entries, input_options, uf, order_modules, cursor, phase,
                 warnings, result,
                 plugin_driver, module_task>>

\* a driver that gives up on the first Error: the tasks in flight are
\* dropped with their messages
recv_error_cancelling ==
  /\ Receives("Error")
  /\ loader' = [loader EXCEPT !.channel = <<>>, !.remaining = 0, !.tasks = {},
                              !.errors = Append(@, Head(loader.channel).err)]
  /\ UNCHANGED <<sources, entries, input_options, module_by_id, uf, order_modules,
                 cursor, phase, warnings, result,
                 plugin_driver, module_task>>

\* the driver receives Error: the error is kept, no task is cancelled
recv_error ==
  /\ Receives("Error")
  /\ loader' = [loader EXCEPT !.channel = Tail(@), !.remaining = @ - 1,
                              !.errors = Append(@, Head(loader.channel).err)]
  /\ UNCHANGED <<sources, entries, input_options, module_by_id, uf, order_modules,
                 cursor, phase, warnings, result,
                 plugin_driver, module_task>>

\* nothing is in flight: fetch_all_modules returns, and on an error
\* generate_module_graph returns it
loader_return ==
  /\ phase = "loading"
  /\ loader.remaining = 0
  /\ IF loader.errors = <<>>
     THEN phase' = "sort_modules" /\ result' = result
     ELSE phase' = "done" /\ result' = Errors(loader.errors)
  /\ UNCHANGED <<sources, entries, input_options, module_by_id, uf, order_modules,
                 cursor, warnings, loader,
                 plugin_driver, module_task>>

\* a step of the loader: of the driver or of a module task
LoaderStep ==
  spawn_entries \/ module_task_run \/ recv_scanned \/ recv_error \/ loader_return

\* the build with the loader step by step
NextLoader ==
  \/ spawn_entries
  \/ module_task_run
  \/ recv_scanned
  \/ recv_error
  \/ loader_return
  \/ sort_modules
  \/ link
  \/ link_exports
  \/ process_re_export_all
  \/ link_imports
  \/ patch

-----------------------------------------------------------------------------
(* BuildPluginDriver: the hooks load, resolve and transform over the       *)
(* plugins in the order they were registered.                              *)

\* Result<Option<T>>
OkOf(v) == [kind |-> "Ok", value |-> v]
Err(k) == [kind |-> "Err", plugin |-> k]

\* what a plugin answers to a hook: Ok(None), Ok(Some(..)) or Err
Answers == {"None", "Some", "Err"}

\* what a plugin does to the loader it is handed by transform
LoaderEffects == {"keep", "Ts"}

\* a plugin, by its behaviour: its answers to load and resolve, its answer
\* to transform and what it sets the loader to
BuildPlugins ==
  [load : Answers, resolve : Answers, transform : Answers, set_loader : LoaderEffects]

\* BuildPluginDriver::new; `calls` records the hooks called, in order, with
\* what each was handed
BuildPluginDriver(plugins) == [plugins |-> plugins, calls |-> <<>>, ret |-> Pending]

\* the call of hook `hook` of plugin k
Call(hook, k, code, loader_seen) ==
  [hook |-> hook, plugin |-> k, code |-> code, loader |-> loader_seen]

\* the output of plugin k: it names the plugin
LoadOutput(k) == [code |-> <<k>>, by |-> k]
ResolvedId(k) == [id |-> "resolved", by |-> k]

RECURSIVE FirstSome(_, _, _, _)
\* the loop of load and of resolve from plugin k on: [calls, ret]
FirstSome(plugins, hook, k, calls) ==
  IF k > Len(plugins) THEN [calls |-> calls, ret |-> OkOf(None)]
  ELSE LET called == Append(calls, Call(hook, k, <<>>, "Js"))
           output == plugins[k][hook]
       IN IF output = "Err" THEN [calls |-> called, ret |-> Err(k)]
          ELSE IF output = "Some"
          THEN [calls |-> called,
                ret |-> OkOf(Some(IF hook = "load" THEN LoadOutput(k) ELSE ResolvedId(k)))]
          ELSE FirstSome(plugins, hook, k + 1, called)

RECURSIVE LastSome(_, _, _, _, _)
\* a loop that does not return on the first Some: the last one wins
LastSome(plugins, hook, k, calls, found) ==
  IF k > Len(plugins) THEN [calls |-> calls, ret |-> OkOf(found)]
  ELSE LET called == Append(calls, Call(hook, k, <<>>, "Js"))
           output == plugins[k][hook]
       IN IF output = "Err" THEN [calls |-> called, ret |-> Err(k)]
          ELSE LastSome(plugins, hook, k + 1, called,
                        IF output = "Some"
                        THEN Some(IF hook = "load" THEN LoadOutput(k) ELSE ResolvedId(k))
                        ELSE found)

\* load with the last plugin returning Some winning
load_last_wins(plugins) == LastSome(plugins, "load", 1, <<>>, None)

\* BuildPluginDriver::load
load_hook(plugins) == FirstSome(plugins, "load", 1, <<>>)

\* BuildPluginDriver::resolve
resolve_hook(plugins) == FirstSome(plugins, "resolve", 1, <<>>)

\* the code plugin k returns from transform: the code it was handed, marked
TransformOutput(k, code) == Append(code, k)

\* the loader after plugin k was handed it
LoaderAfter(plugin, loader_seen) ==
  IF plugin.set_loader = "keep" THEN loader_seen ELSE plugin.set_loader

RECURSIVE transform_from(_, _, _, _, _)
\* the loop of transform from plugin k on: [calls, ret, loader]
transform_from(plugins, k, code, loader_var, calls) ==
  IF k > Len(plugins) THEN [calls |-> calls, ret |-> OkOf(code), loader |-> loader_var]
  ELSE LET called == Append(calls, Call("transform", k, code, loader_var))
           output == plugins[k].transform
           loader1 == LoaderAfter(plugins[k], loader_var)
       IN IF output = "Err" THEN [calls |-> called, ret |-> Err(k), loader |-> loader1]
          ELSE transform_from(plugins, k + 1,
                              IF output = "Some" THEN TransformOutput(k, code) ELSE code,
                              loader1, called)

\* BuildPluginDriver::transform
transform_hook(plugins, code, loader_var) == transform_from(plugins, 1, code, loader_var, <<>>)

\* the build's variables, which a hook leaves alone
BuildVars ==
  <<sources, entries, input_options, module_by_id, uf, order_modules, cursor, phase,
    warnings, result, loader, module_task>>

\* a hook is called on the driver
Dispatch(hook, out) ==
  /\ plugin_driver.ret = Pending
  /\ plugin_driver' = [plugin_driver EXCEPT !.calls = out.calls,
                                            !.ret = [hook |-> hook, out |-> out]]
  /\ UNCHANGED BuildVars

load == Dispatch("load", load_hook(plugin_driver.plugins))

resolve == Dispatch("resolve", resolve_hook(plugin_driver.plugins))

transform == Dispatch("transform", transform_hook(plugin_driver.plugins, <<>>, "Js"))

\* the hooks of the plugin driver
NextPlugins ==
  \/ load
  \/ resolve
  \/ transform

-----------------------------------------------------------------------------
(* ModuleTask, one task step by step: run_inner up to the parse, the       *)
(* resolve jobs it spawns, their join, and the message run sends.          *)

\* ModuleId::new
ModuleId(id, external) == [id |-> id, external |-> external]

\* the dependency specifiers a scanned module can name
Specifiers == {"p", "q"}

\* what the collaborators answer for one specifier: the user predicate on
\* the raw specifier (`raw`), the plugins and the path resolver (`found`),
\* the user predicate on the resolved id (`res`)
ResolveCases ==
  {[raw |-> "Yes", found |-> "Nothing", res |-> "No"],
   [raw |-> "Err", found |-> "Nothing", res |-> "No"],
   [raw |-> "No", found |-> "Nothing", res |-> "No"],
   [raw |-> "No", found |-> "Err", res |-> "No"]}
    \cup [raw : {"No"}, found : {"Plugin", "PluginExternal", "Path"},
          res : {"No", "Yes", "Err"}]

\* the error of the resolution of a specifier
ResolveError(specifier) == [kind |-> "Err", specifier |-> specifier]

\* the free function resolve_id: the plugins' resolve hook, then the path
\* resolver; a plugin's ResolvedId carries its external flag
resolve_id_with_plugins(specifier, case) ==
  CASE case.found = "Err" -> ResolveError(specifier)
    [] case.found = "Nothing" -> OkOf(None)
    [] case.found = "Plugin" -> OkOf(Some(ModuleId("plugin:" \o specifier, FALSE)))
    [] case.found = "PluginExternal" -> OkOf(Some(ModuleId("plugin:" \o specifier, TRUE)))
    [] case.found = "Path" -> OkOf(Some(ModuleId("/" \o specifier, FALSE)))

\* ModuleTask::resolve_id
resolve_id(specifier, case) ==
  IF case.raw = "Err" THEN ResolveError(specifier)
  ELSE IF case.raw = "Yes" THEN OkOf(ModuleId(specifier, TRUE))
  ELSE LET resolved_id == resolve_id_with_plugins(specifier, case) IN
       IF resolved_id.kind = "Err" THEN resolved_id
       ELSE IF resolved_id.value # None
       THEN IF case.res = "Err" THEN ResolveError(specifier)
            ELSE OkOf(ModuleId(resolved_id.value[1].id, case.res = "Yes"))
       ELSE OkOf(ModuleId(specifier, TRUE))

\* what run_inner meets before it resolves: an error of load, read or
\* transform, a parse error, or the loader the module is parsed with
Plans == {"LoadErr", "ParseErr", "Js", "Ts", "Json"}

\* a task: its inputs (plan, scan_result, cases), where it stands (pc), its
\* resolve jobs in the order spawned, the order they finished in, what
\* run_inner returned and what run sent
NewTask(pc, plan, scan_result, cases) ==
  [pc |-> pc, plan |-> plan, scan_result |-> scan_result, cases |-> cases,
   jobs |-> <<>>, finished |-> <<>>, ret |-> Pending, sent |-> <<>>]

\* no task is modelled step by step
IdleTask ==
  NewTask("idle", "Js", [dependencies |-> <<>>, dyn_dependencies |-> <<>>],
          [s \in Specifiers |-> [raw |-> "Yes", found |-> "Nothing", res |-> "No"]])

\* Msg of one task
MsgScanned(task_result) == [kind |-> "Scanned", result |-> task_result]
MsgError(err) == [kind |-> "Error", err |-> err]

\* the errors of run_inner before the resolution
io_error == [kind |-> "IoError"]
parse_failed == [kind |-> "ParseFailed"]

\* the steps a task takes leave the build alone
TaskVars ==
  <<sources, entries, input_options, module_by_id, uf, order_modules, cursor, phase,
    warnings, result, loader, plugin_driver>>

\* the jobs resolve_dependencies spawns: dependencies chained with
\* dyn_dependencies
SpawnJobs(scan_result) ==
  LET dependencies == scan_result.dependencies \o scan_result.dyn_dependencies
  IN [i \in 1..Len(dependencies) |-> [specifier |-> dependencies[i], handle |-> Pending]]

\* run_inner, from load to the spawning of the resolve jobs; the Json loader
\* is unimplemented!() in parse_to_js_ast: the task panics
run_inner ==
  /\ module_task.pc = "run"
  /\ module_task' =
       CASE module_task.plan = "LoadErr" ->
              [module_task EXCEPT !.pc = "returned", !.ret = io_error]
         [] module_task.plan = "ParseErr" ->
              [module_task EXCEPT !.pc = "returned", !.ret = parse_failed]
         [] module_task.plan = "Json" ->
              [module_task EXCEPT !.pc = "panicked"]
         [] OTHER ->
              [module_task EXCEPT !.pc = "resolving",
                                  !.jobs = SpawnJobs(module_task.scan_result)]
  /\ UNCHANGED TaskVars

\* one spawned job runs resolve_id to its end
resolve_job ==
  /\ module_task.pc = "resolving"
  /\ \E i \in 1..Len(module_task.jobs) :
       /\ module_task.jobs[i].handle = Pending
       /\ module_task' =
            [module_task EXCEPT
               !.jobs[i].handle = resolve_id(module_task.jobs[i].specifier,
                                    module_task.cases[module_task.jobs[i].specifier]),
               !.finished = Append(@, i)]
  /\ UNCHANGED TaskVars

RECURSIVE CollectResolved(_, _, _)
\* the filter_map over the handles in the order of the jobs: [ret, errors]
CollectResolved(jobs, ret, errors) ==
  IF jobs = <<>> THEN [ret |-> ret, errors |-> errors]
  ELSE LET job == Head(jobs) IN
       IF job.handle.kind = "Ok"
       THEN CollectResolved(Tail(jobs),
                            (job.specifier :> job.handle.value) @@ ret, errors)
       ELSE CollectResolved(Tail(jobs), ret, Append(errors, job.handle))

\* the value of resolve_dependencies, returning at the first error
ResolvedOf_first_error(task) ==
  LET c == CollectResolved(task.jobs, <<>>, <<>>)
  IN IF c.errors = <<>> THEN OkOf(c.ret) ELSE Errors(<<Head(c.errors)>>)

\* the value of resolve_dependencies from the joined handles
ResolvedOf(task) ==
  LET c == CollectResolved(task.jobs, <<>>, <<>>)
  IN IF c.errors = <<>> THEN OkOf(c.ret) ELSE Errors(c.errors)

\* join_all has every handle: resolve_dependencies returns, and run_inner
\* with it
resolve_dependencies ==
  /\ module_task.pc = "resolving"
  /\ \A i \in 1..Len(module_task.jobs) : module_task.jobs[i].handle # Pending
  /\ module_task' =
       [module_task EXCEPT
          !.pc = "returned",
          !.ret = IF ResolvedOf(module_task).kind = "Ok"
                  THEN OkOf([resolved_ids |-> ResolvedOf(module_task).value])
                  ELSE ResolvedOf(module_task)]
  /\ UNCHANGED TaskVars

\* ModuleTask::run: the one message of the task
run ==
  /\ module_task.pc = "returned"
  /\ module_task' =
       [module_task EXCEPT
          !.pc = "sent",
          !.sent = Append(@, IF module_task.ret.kind = "Ok"
                             THEN MsgScanned(module_task.ret.value)
                             ELSE MsgError(module_task.ret))]
  /\ UNCHANGED TaskVars

NextTask ==
  \/ run_inner
  \/ resolve_job
  \/ resolve_dependencies
  \/ run

-----------------------------------------------------------------------------
(* The source programs a build is started on.                              *)

\* a module exports a name once
WellFormed(P) ==
  \A s, t \in P :
    (s # t /\ s.m = t.m /\ s.kind \in {"export", "reexport"}
           /\ t.kind \in {"export", "reexport"})
      => (IF s.kind = "export" THEN s.n ELSE s.as)
           # (IF t.kind = "export" THEN t.n ELSE t.as)

\* every statement stands in a module the loader reaches
AllLoaded(P, input) == {s.m : s \in P} \subseteq ReachFrom(P, SeqRange(input))

\* the normal modules of a program: those of its statements and of their
\* importees
ModulesOf(P) ==
  NormalIds \cup {s.m : s \in P} \cup {s.j : s \in {t \in P : t.j # "" /\ ~is_external(t.j)}}

\* Graph::new, for a program of at most k statements of U of which the
\* modules `broken` fail to load or parse
InitWith(U, k, inputs, shims, brokens) ==
  /\ \E P \in KSub(U, k), input \in inputs, shim \in shims, broken \in brokens :
       /\ WellFormed(P)
       /\ AllLoaded(P, input)
       /\ sources \in {[stmts |-> P, order |-> o, broken |-> broken] :
                          o \in OrderChoices(P, ModulesOf(P))}
       /\ input_options = [input |-> input, shim_missing_exports |-> shim]
  /\ entries = <<>>
  /\ module_by_id = <<>>
  /\ uf = {}
  /\ order_modules = <<>>
  /\ cursor = 0
  /\ phase = "fetch"
  /\ warnings = <<>>
  /\ result = Pending
  /\ loader = NewLoader
  /\ plugin_driver = BuildPluginDriver(<<>>)
  /\ module_task = IdleTask

\* Graph::new, for a program of at most k statements of U, every module of
\* which loads and parses
InitFrom(U, k, inputs, shims) == InitWith(U, k, inputs, shims, {{}})

ExportStmts(names) == {Stmt("export", m, "", n, "") : m \in NormalIds, n \in names}
StarStmts(targets) == {Stmt("star", m, j, "", "") : m \in NormalIds, j \in targets}
ImportStmts(targets, names) ==
  {Stmt("import", m, j, n, "") : m \in NormalIds, j \in targets, n \in names}
AliasedImportStmts(targets, names, as) ==
  {Stmt("import", m, j, n, as) : m \in NormalIds, j \in targets, n \in names}
DynImportStmts(targets) ==
  {Stmt("dynimport", m, j, "", "") : m \in NormalIds, j \in targets}
ReExportStmts(targets, renames) ==
  {Stmt("reexport", m, j, r[1], r[2]) : m \in NormalIds, j \in targets, r \in renames}

\* the number of statements of a program
MaxSortStmts == 4

\* programs of static and dynamic imports: the shapes of the dependency graph
SortPrograms == ImportStmts(NormalIds \cup {"E"}, {"x"}) \cup DynImportStmts(NormalIds \cup {"E"})

InitSort == InitFrom(SortPrograms, MaxSortStmts, {<<"a">>, <<"a", "b">>}, {TRUE})

\* the build up to the end of sort_modules
NextSort ==
  \/ fetch_all_modules
  \/ sort_modules

SpecSort == InitSort /\ [][NextSort]_vars

\* the number of statements of a program of imports and named re-exports
MaxLinkStmts == 3

\* programs of local exports, named re-exports (renaming or not, from normal
\* and external modules) and imports
LinkPrograms ==
  ExportStmts({"x"})
    \cup ReExportStmts(NormalIds \cup {"E"}, {<<"x", "x">>, <<"x", "y">>, <<"y", "x">>})
    \cup ReExportStmts({"E"}, {<<"x", "default">>})
    \cup ImportStmts(NormalIds \cup {"E"}, {"x", "y"})

Init == InitFrom(LinkPrograms, MaxLinkStmts, {<<"a">>}, {FALSE, TRUE})

Spec == Init /\ [][Next]_vars

\* the number of statements of a program of wildcard re-exports
MaxStarStmts == 5

\* programs of local exports and `export *`, with a named re-export from an
\* external module; shim_missing_exports is off
StarPrograms ==
  ExportStmts({"x", "default"})
    \cup StarStmts(NormalIds \cup {"E"})
    \cup ReExportStmts({"E"}, {<<"x", "x">>})

InitStar == InitFrom(StarPrograms, MaxStarStmts, {<<"a">>}, {FALSE})

SpecStar == InitStar /\ [][Next]_vars

\* the statements of S that name another module than their own
NoSelf(S) == {s \in S : s.m # s.j}

\* the number of statements of a program around a default export
MaxDefaultStmts == 4

\* programs of default exports, `export *` and requests of `default` by name
DefaultPrograms ==
  ExportStmts({"default"})
    \cup NoSelf(StarStmts(NormalIds))
    \cup NoSelf(ImportStmts(NormalIds, {"default"}))
    \cup NoSelf(ReExportStmts(NormalIds, {<<"default", "x">>}))

InitDefault == InitFrom(DefaultPrograms, MaxDefaultStmts, {<<"a">>}, {FALSE, TRUE})

SpecDefault == InitDefault /\ [][Next]_vars

\* the number of statements of a program of imports through re-exports
MaxImportStmts == 3

\* programs of local exports, named re-exports between normal modules
\* (renaming or not) and imports from normal modules
ImportPrograms ==
  ExportStmts({"x"})
    \cup NoSelf(ReExportStmts(NormalIds, {<<"x", "x">>, <<"x", "y">>}))
    \cup NoSelf(ImportStmts(NormalIds, {"x", "y"}))

InitImports == InitFrom(ImportPrograms, MaxImportStmts, {<<"a">>}, {FALSE, TRUE})

SpecImports == InitImports /\ [][Next]_vars

\* the number of statements of a program of re-exports from an external module
MaxExternalStmts == 3

\* programs of named re-exports from an external module (renaming, to
\* "default" too) and of requests of the re-exported names
ExternalPrograms ==
  ReExportStmts({"E"}, {<<"x", "x">>, <<"x", "y">>, <<"x", "default">>})
    \cup NoSelf(ReExportStmts(NormalIds, {<<"x", "x">>}))
    \cup NoSelf(ImportStmts(NormalIds, {"x", "y"}))

InitExternal == InitFrom(ExternalPrograms, MaxExternalStmts, {<<"a">>}, {FALSE, TRUE})

SpecExternal == InitExternal /\ [][Next]_vars

\* the number of statements of a program with missing exports
MaxMissingStmts == 3

\* programs of local exports, `export *` from an external module, imports
\* from normal modules (the importer itself included) and named re-exports
\* between normal modules
MissingPrograms ==
  ExportStmts({"x"})
    \cup StarStmts({"E"})
    \cup ImportStmts(NormalIds, {"x", "y"})
    \cup NoSelf(ReExportStmts(NormalIds, {<<"x", "x">>, <<"y", "x">>}))

InitMissing == InitFrom(MissingPrograms, MaxMissingStmts, {<<"a">>}, {FALSE, TRUE})

SpecMissing == InitMissing /\ [][Next]_vars

\* the number of statements of a program of imports from external modules
MaxInterningStmts == 3

\* programs of imports of two names from the other normal modules and from
\* two external modules
InterningPrograms == NoSelf(ImportStmts(NormalIds \cup ExternalIds, {"x", "y"}))

InitInterning == InitFrom(InterningPrograms, MaxInterningStmts, {<<"a">>}, {FALSE, TRUE})

SpecInterning == InitInterning /\ [][Next]_vars

\* the number of statements of a program of modules importing each other
MaxCycleStmts == 4

\* programs of local exports and imports between different normal modules
CyclePrograms == ExportStmts({"x", "y"}) \cup NoSelf(ImportStmts(NormalIds, {"x", "y"}))

InitCycle == InitFrom(CyclePrograms, MaxCycleStmts, {<<"a">>}, {FALSE, TRUE})

SpecCycle == InitCycle /\ [][Next]_vars

\* the number of statements of a program of self re-exports
MaxSelfStmts == 3

\* programs of local exports and named re-exports, from the module itself
\* too
SelfPrograms ==
  ExportStmts({"x"})
    \cup ReExportStmts(NormalIds, {<<"x", "y">>, <<"y", "x">>, <<"default", "default">>})

InitSelf == InitFrom(SelfPrograms, MaxSelfStmts, {<<"a">>}, {FALSE, TRUE})

SpecSelf == InitSelf /\ [][Next]_vars

\* the number of statements of a program of chained dynamic imports
MaxDynamicStmts == 4

\* the modules of these programs: one more, so that two modules can lie
\* behind a dynamic import of a dynamically imported module
DynamicIds == NormalIds \cup {"d"}

\* programs of dynamic imports between four modules, of which c and d export
\* x, re-export x from each other or from an external module, or import it
DynamicPrograms ==
  {Stmt("dynimport", m, j, "", "") : m \in DynamicIds, j \in DynamicIds}
    \cup {Stmt("export", m, "", "x", "") : m \in {"c", "d"}}
    \cup {Stmt("reexport", m, j, "x", "x") : m \in {"c", "d"}, j \in {"c", "d", "E"}}
    \cup {Stmt("import", m, j, "x", "") : m \in {"c", "d"}, j \in {"c", "d"}}

InitDynamic == InitFrom(NoSelf(DynamicPrograms), MaxDynamicStmts, {<<"a">>}, {FALSE, TRUE})

SpecDynamic == InitDynamic /\ [][Next]_vars

\* the number of statements of a program on which the link fails
MaxHaltStmts == 3

\* programs of local exports, named re-exports and imports between normal
\* modules, the module itself included
HaltPrograms ==
  ExportStmts({"x"})
    \cup ReExportStmts(NormalIds, {<<"x", "y">>, <<"y", "x">>})
    \cup ImportStmts(NormalIds, {"x"})

InitHalt == InitFrom(HaltPrograms, MaxHaltStmts, {<<"a">>}, {FALSE, TRUE})

SpecHalt == InitHalt /\ [][Next]_vars

\* the number of plugins registered
MaxPlugins == 2

RECURSIVE PluginLists(_)
\* the lists of at most n plugins
PluginLists(n) ==
  IF n = 0 THEN {<<>>}
  ELSE LET shorter == PluginLists(n - 1)
       IN shorter \cup {Append(ps, p) : ps \in shorter, p \in BuildPlugins}

\* BuildPluginDriver::new on a list of plugins; no build is running
InitPlugins ==
  /\ plugin_driver \in {BuildPluginDriver(ps) : ps \in PluginLists(MaxPlugins)}
  /\ sources = [stmts |-> {}, order |-> <<>>, broken |-> {}]
  /\ input_options = [input |-> <<>>, shim_missing_exports |-> FALSE]
  /\ entries = <<>>
  /\ module_by_id = <<>>
  /\ uf = {}
  /\ order_modules = <<>>
  /\ cursor = 0
  /\ phase = "idle"
  /\ warnings = <<>>
  /\ result = Pending
  /\ loader = NewLoader
  /\ module_task = IdleTask

SpecPlugins == InitPlugins /\ [][NextPlugins]_vars

\* the number of dependency specifiers of the scanned module
MaxDeps == 2

\* the sequences of different specifiers
SpecifierLists == {p \in UNION {[1..n -> Specifiers] : n \in 0..MaxDeps} :
                     \A i, j \in 1..Len(p) : i # j => p[i] # p[j]}

\* one task about to run, with any plan, any scan result of at most MaxDeps
\* dependencies and any answers of the collaborators
InitTask ==
  /\ \E plan \in Plans, deps \in SpecifierLists, dyn \in SpecifierLists,
        cases \in [Specifiers -> ResolveCases] :
       /\ Len(deps) + Len(dyn) <= MaxDeps
       /\ module_task = NewTask("run", plan,
                                [dependencies |-> deps, dyn_dependencies |-> dyn], cases)
  /\ plugin_driver = BuildPluginDriver(<<>>)
  /\ sources = [stmts |-> {}, order |-> <<>>, broken |-> {}]
  /\ input_options = [input |-> <<>>, shim_missing_exports |-> FALSE]
  /\ entries = <<>>
  /\ module_by_id = <<>>
  /\ uf = {}
  /\ order_modules = <<>>
  /\ cursor = 0
  /\ phase = "idle"
  /\ warnings = <<>>
  /\ result = Pending
  /\ loader = NewLoader

SpecTask == InitTask /\ [][NextTask]_vars

\* the number of statements of a program with several external sources
MaxAmbiguousStmts == 3

\* programs of local exports, `export *` from two external modules and
\* imports between different normal modules
AmbiguousPrograms ==
  ExportStmts({"x"})
    \cup StarStmts(ExternalIds)
    \cup NoSelf(ImportStmts(NormalIds, {"x", "y"}))

InitAmbiguous == InitFrom(AmbiguousPrograms, MaxAmbiguousStmts, {<<"a">>}, {FALSE, TRUE})

SpecAmbiguous == InitAmbiguous /\ [][Next]_vars

\* the number of statements of a program with self-imports
MaxSelfImportStmts == 3

\* programs of local exports, `export *` from an external module and
\* imports of a name or of the namespace, from the importer itself too
SelfImportPrograms ==
  ExportStmts({"x"})
    \cup StarStmts({"E"})
    \cup ImportStmts(NormalIds, {"x", "y", "*"})

InitSelfImport ==
  InitFrom(SelfImportPrograms, MaxSelfImportStmts, {<<"a">>}, {FALSE, TRUE})

SpecSelfImport == InitSelfImport /\ [][Next]_vars

\* the number of statements of a program loaded and linked step by step
MaxFrameStmts == 3

\* programs of named re-exports, from an external module too, and of
\* imports, loaded by the step-by-step loader; the module b may fail to load;
\* shim_missing_exports is on or off
FramePrograms ==
  ReExportStmts({"E"}, {<<"x", "x">>})
    \cup NoSelf(ReExportStmts(NormalIds, {<<"x", "x">>}))
    \cup NoSelf(ImportStmts(NormalIds \cup {"E"}, {"x"}))

InitFrame ==
  InitWith(FramePrograms, MaxFrameStmts, {<<"a">>}, {FALSE, TRUE}, {{}, {"b"}})

SpecFrame == InitFrame /\ [][NextLoader]_vars

\* the number of statements of a program linked with the shim enabled
MaxShimStmts == 3

\* programs of local exports, `export *` from two external modules, imports
\* of two names and named re-exports of a name from the other normal modules
ShimPrograms ==
  ExportStmts({"x"})
    \cup StarStmts(ExternalIds)
    \cup NoSelf(ImportStmts(NormalIds, {"x", "y"}))
    \cup NoSelf(ReExportStmts(NormalIds, {<<"y", "y">>}))

InitShim == InitFrom(ShimPrograms, MaxShimStmts, {<<"a">>}, {TRUE})

SpecShim == InitShim /\ [][Next]_vars

\* the number of statements of a program importing a name more than once
MaxOnceStmts == 3

\* programs of `export *` from two external modules and of imports of y from
\* the other normal modules, under its own name and as z
OncePrograms ==
  StarStmts(ExternalIds)
    \cup NoSelf(ImportStmts(NormalIds, {"y"}))
    \cup NoSelf(AliasedImportStmts(NormalIds, {"y"}, "z"))

InitOnce == InitFrom(OncePrograms, MaxOnceStmts, {<<"a">>, <<"a", "c">>}, {FALSE})

SpecOnce == InitOnce /\ [][Next]_vars

\* the number of statements of a program around external modules
MaxMergeStmts == 3

\* programs of imports of two names from normal and external modules, of
\* named re-exports and of `export *` from two external modules;
\* shim_missing_exports is off
MergePrograms ==
  NoSelf(ImportStmts(NormalIds \cup ExternalIds, {"x", "y"}))
    \cup ReExportStmts(ExternalIds, {<<"x", "x">>})
    \cup StarStmts(ExternalIds)

InitMerge == InitFrom(MergePrograms, MaxMergeStmts, {<<"a">>}, {FALSE})

SpecMerge == InitMerge /\ [][Next]_vars

\* the number of statements of a program the loader expands
MaxLoaderStmts == 3

\* programs of static and dynamic imports, some modules of which fail
LoaderPrograms ==
  NoSelf(ImportStmts(NormalIds \cup {"E"}, {"x"}) \cup DynImportStmts(NormalIds))

InitLoader ==
  InitWith(LoaderPrograms, MaxLoaderStmts, {<<"a">>, <<"a", "b">>}, {TRUE},
           SUBSET NormalIds)

SpecLoader == InitLoader /\ [][NextLoader]_vars

\* every task runs on and the driver keeps receiving: tasks are spawned on
\* the runtime, and the driver awaits the channel while tasks are in flight
SpecLoaderFair == SpecLoader /\ WF_vars(LoaderStep)

-----------------------------------------------------------------------------
(* Properties of the execution order.                                      *)

\* sort_modules has run
Sorted == phase \notin {"fetch", "sort_modules"}

exec_order(m) == module_by_id[m].exec_order

StaticDeps(m) == SeqRange(module_by_id[m].dependencies)

RECURSIVE StaticReach(_)
\* the ids reachable from the set `seen` through static dependencies
StaticReach(seen) ==
  LET more == UNION {StaticDeps(m) : m \in seen}
  IN IF more \subseteq seen THEN seen ELSE StaticReach(seen \cup more)

\* m depends on d and d reaches m again: the two lie on a cycle
OnCommonCycle(m, d) == m \in StaticReach({d})

\* C2 (as claimed): after sort_modules, every static dependency d of every
\* module m that is not on a cycle with m has a smaller exec_order than m.
C2_OrderingValidity ==
  Sorted =>
    \A m \in ModuleIds : \A d \in StaticDeps(m) :
      ~OnCommonCycle(m, d) => exec_order(d) < exec_order(m)

\* C3 (as claimed): after sort_modules, every module of the graph has an
\* exec_order other than the unset sentinel and no two modules share one.
C3_EveryModuleOrdered ==
  Sorted =>
    /\ \A m \in ModuleIds : exec_order(m) # UsizeMax
    /\ \A m1, m2 \in ModuleIds : m1 # m2 => exec_order(m1) # exec_order(m2)

RECURSIVE EnteredInOrder(_, _)
\* the ids the first sweep enters, in the order it enters them: the stack
\* of the ids still to enter, as the loop pushes and pops them
EnteredInOrder(stack, entered) ==
  IF stack = <<>> THEN entered
  ELSE LET id == Top(stack) IN
       IF id \in SeqRange(entered) THEN EnteredInOrder(Pop(stack), entered)
       ELSE EnteredInOrder(Pop(stack) \o Reverse(module_by_id[id].dependencies),
                           Append(entered, id))

\* the first sweep's order of entering
Pass1Entered == EnteredInOrder(Reverse(entries), <<>>)

\* the modules on a static-dependency cycle with m, m included
CycleOf(m) == {d \in StaticReach(StaticDeps(m)) : m \in StaticReach(StaticDeps(d))}

\* the module of the set C the first sweep enters first
FirstEntered(C) ==
  LET p == Pass1Entered
  IN p[CHOOSE i \in 1..Len(p) : p[i] \in C /\ \A k \in 1..(i - 1) : p[k] \notin C]

\* the cycles the first sweep meets: each as the set of its modules
Pass1Cycles == {CycleOf(m) : m \in {d \in SeqRange(Pass1Entered) : d \in CycleOf(d)}}

\* C24 (as claimed): of the modules of a static-dependency cycle the sweep
\* meets, the one entered first is assigned the lowest exec_order.
C24_CycleOrdering ==
  Sorted =>
    \A C \in Pass1Cycles : \A d \in C \ {FirstEntered(C)} :
      exec_order(FirstEntered(C)) < exec_order(d)

\* C24 (amended): of the modules of a static-dependency cycle the sweep
\* meets, the one entered first is assigned the highest exec_order: it is
\* exited after every other module of the cycle.
C24_CycleOrderingAmended ==
  Sorted =>
    \A C \in Pass1Cycles : \A d \in C \ {FirstEntered(C)} :
      /\ exec_order(d) < exec_order(FirstEntered(C))
      /\ exec_order(FirstEntered(C)) # UsizeMax

\* C24, its case: the sweep has ordered a cycle of three modules behind the
\* entry
C24_Witness ==
  /\ Sorted
  /\ \E C \in Pass1Cycles :
       /\ Cardinality(C) = 3
       /\ \A d \in C \ {FirstEntered(C)} : exec_order(d) < exec_order(FirstEntered(C))

\* the modules the first sweep orders: those statically reachable from an
\* entry
Pass1Modules == StaticReach(SeqRange(entries))

\* the dynamic entries the first sweep collects
DynamicEntries == UNION {module_by_id[m].dyn_dependencies : m \in Pass1Modules}

\* the modules first visited in the second sweep
Pass2Modules == StaticReach(DynamicEntries) \ Pass1Modules

\* the orders given to the modules of the set S
OrdersOf(S) == {exec_order(m) : m \in S}

\* every module statically reachable from an entry is ordered in pass 1:
\* these modules hold the first orders, one each
StaticOrderedInPass1 ==
  /\ OrdersOf(Pass1Modules) = 0..(Cardinality(Pass1Modules) - 1)
  /\ \A m1, m2 \in Pass1Modules : m1 # m2 => exec_order(m1) # exec_order(m2)

\* every module first visited in pass 2 is ordered after every pass-1 module
DynamicOrderedAfter ==
  \A d \in Pass2Modules :
    /\ exec_order(d) # UsizeMax
    /\ \A m \in Pass1Modules : exec_order(m) < exec_order(d)

\* a module is visited once: the two sweeps hand out as many orders as they
\* visit modules, and a dynamically imported module of pass 1 keeps the order
\* pass 1 gave it
VisitedOnce ==
  /\ OrdersOf(Pass1Modules \cup Pass2Modules)
       = 0..(Cardinality(Pass1Modules \cup Pass2Modules) - 1)
  /\ \A m \in DynamicEntries \cap Pass1Modules :
       exec_order(m) < Cardinality(Pass1Modules)

\* C25: after sort_modules, the modules statically reachable from an entry
\* hold the orders of pass 1, every module first visited in pass 2 has an
\* order greater than all of them, and a module both statically reachable
\* and dynamically imported is visited once and keeps its pass-1 order.
C25_DynamicAfterStatic ==
  Sorted => StaticOrderedInPass1 /\ DynamicOrderedAfter /\ VisitedOnce

\* C25, its case: a module only reachable through a dynamic import is
\* ordered last, and another module is both a static dependency and
\* dynamically imported
C25_Witness ==
  /\ Sorted
  /\ \E d \in Pass2Modules : exec_order(d) = Cardinality(Pass1Modules)
  /\ \E m \in DynamicEntries \cap Pass1Modules :
       /\ m \notin SeqRange(entries)
       /\ exec_order(m) < Cardinality(Pass1Modules)

\* the place of the id d in the sequence p of distinct ids, 0 when absent
PlaceIn(p, d) ==
  IF d \in SeqRange(p) THEN CHOOSE i \in 1..Len(p) : p[i] = d ELSE 0

\* d is not yet entered when the first sweep enters m
UnvisitedAt(m, d) ==
  /\ PlaceIn(Pass1Entered, m) > 0
  /\ PlaceIn(Pass1Entered, d) > PlaceIn(Pass1Entered, m)

\* d1 transitively statically depends on d2
DependsOn(d1, d2) == d2 \in StaticReach(StaticDeps(d1))

\* the entries are swept in the order they are listed: the first one is
\* entered first, and an entry is ordered before a later entry it does not
\* depend on
EntriesInListedOrder ==
  /\ Pass1Entered[1] = entries[1]
  /\ \A i, j \in 1..Len(entries) :
       (i < j /\ entries[i] # entries[j] /\ ~DependsOn(entries[i], entries[j])
          /\ \A k \in 1..(i - 1) : entries[j] \notin StaticReach({entries[k]}))
         => exec_order(entries[i]) < exec_order(entries[j])

\* the dependencies of a module are swept in the order they are listed
DependenciesInListedOrder ==
  \A m \in SeqRange(Pass1Entered) :
    LET deps == module_by_id[m].dependencies
    IN \A i, j \in 1..Len(deps) :
         (i < j /\ UnvisitedAt(m, deps[i]) /\ UnvisitedAt(m, deps[j])
            /\ ~DependsOn(deps[i], deps[j]))
           => exec_order(deps[i]) < exec_order(deps[j])

\* the dependencies of a module are swept in the order they are listed: a
\* dependency is ordered before a later one that neither it nor a dependency
\* listed before it depends on
DependenciesInSweepOrder ==
  \A m \in SeqRange(Pass1Entered) :
    LET deps == module_by_id[m].dependencies
    IN \A i, j \in 1..Len(deps) :
         (i < j /\ UnvisitedAt(m, deps[i]) /\ UnvisitedAt(m, deps[j])
            /\ \A k \in 1..i : ~DependsOn(deps[k], deps[j]))
           => exec_order(deps[i]) < exec_order(deps[j])

\* C26 (as claimed): after sort_modules, the entries are ordered as listed,
\* and of two static dependencies d1, d2 of a module m, d1 listed first, both
\* not yet visited when m is entered and d1 not depending on d2, d1 has the
\* smaller exec_order.
C26_ListedOrder ==
  Sorted => EntriesInListedOrder /\ DependenciesInListedOrder

\* C26 (amended): the same, when in addition no dependency of m listed
\* before d1 depends on d2.
C26_ListedOrderAmended ==
  Sorted => EntriesInListedOrder /\ DependenciesInSweepOrder

\* C26, its case: a module lists three unvisited dependencies, the first
\* of which depends on the second, and the second is ordered before the
\* third, which none of the two depends on
C26_Witness ==
  /\ Sorted
  /\ \E m \in SeqRange(Pass1Entered) :
       LET deps == module_by_id[m].dependencies
       IN /\ Len(deps) = 3
          /\ \A i \in 1..3 : UnvisitedAt(m, deps[i])
          /\ DependsOn(deps[1], deps[2])
          /\ ~DependsOn(deps[1], deps[3]) /\ ~DependsOn(deps[2], deps[3])
          /\ exec_order(deps[2]) < exec_order(deps[3])

-----------------------------------------------------------------------------
(* Properties of the linked graph.                                         *)

\* link() has returned Ok
LinkedOk == phase = "patch" \/ (phase = "done" /\ result = Ok)

NormalModuleIds == {m \in ModuleIds : ~is_external(m)}

linked_exports(m) == module_by_id[m].linked_exports
linked_imports(m) == module_by_id[m].linked_imports

\* the entry of linked_imports is sound: its owner exports the imported name
\* and the exported binding is in the class of the importing one
SoundImport(li) ==
  \/ is_external(li.owner)
  \/ /\ li.spec.imported \in DOMAIN linked_exports(li.owner)
     /\ Same(uf, linked_exports(li.owner)[li.spec.imported].local_id,
             li.spec.imported_as)

\* C1 (as claimed): after link() returns Ok, every entry of every normal
\* module's linked_imports has an external owner, or the owner's
\* linked_exports has the imported name with a local_id in the union-find
\* class of imported_as.
C1_LinkSoundness ==
  LinkedOk => \A M \in NormalModuleIds : \A li \in linked_imports(M) : SoundImport(li)

\* the position of module m in order_modules
Position(m) == CHOOSE i \in 1..Len(order_modules) : order_modules[i] = m

\* the exports pass has run the named re-exports of importer I
NamedReExportsDone(I) ==
  \/ phase \in {"link_exports", "process_re_export_all"} /\ Position(I) <= cursor
  \/ phase \in {"link_imports", "patch"}
  \/ phase = "done" /\ result = Ok

\* the exports pass is over and the imports pass has not begun
ExportsPassEnd == phase = "link_imports" /\ cursor = 0

\* the imports pass has run the step of importer I
ImportsDone(I) ==
  \/ phase = "link_imports" /\ Position(I) <= cursor
  \/ phase = "patch"
  \/ phase = "done" /\ result = Ok

\* the imports of I from a normal module
NormalImports(I) == {imp \in module_by_id[I].imports : ~is_external(imp.importee)}

\* the entry C4 expects for the import imp, resolved to the exported e
Redirected(imp, e) ==
  [owner |-> e.owner, spec |-> ImportedSpecifier(e.exported_as, imp.spec.imported_as)]

\* C4: once the imports pass has resolved the imports of importer I, each
\* import s from a normal importee J whose find_exported(s.imported) is e has
\* the entry {imported: e.exported_as, imported_as: s.imported_as} in
\* I.linked_imports under the key e.owner and under no other key, and
\* s.imported_as is in the union-find class of e.local_id.
C4_ImportRedirection ==
  \A I \in NormalModuleIds : ImportsDone(I) =>
    \A imp \in NormalImports(I) :
      /\ imp.spec.imported \in DOMAIN linked_exports(imp.importee)
      /\ LET e == linked_exports(imp.importee)[imp.spec.imported]
         IN /\ Redirected(imp, e) \in linked_imports(I)
            /\ \A li \in linked_imports(I) :
                 li.spec.imported_as = imp.spec.imported_as => li.owner = e.owner
            /\ Same(uf, imp.spec.imported_as, e.local_id)

\* C4, its case: a finished build in which an import was redirected from the
\* re-exporting importee to the module that owns the binding
C4_Witness ==
  /\ phase = "done" /\ result = Ok
  /\ \E I \in NormalModuleIds : \E imp \in NormalImports(I) :
       /\ imp.spec.imported \in DOMAIN linked_exports(imp.importee)
       /\ linked_exports(imp.importee)[imp.spec.imported].owner \notin {I, imp.importee}
       /\ Redirected(imp, linked_exports(imp.importee)[imp.spec.imported])
            \in linked_imports(I)

\* the named re-exports of I from another normal module
NormalReExports(I) ==
  {r \in module_by_id[I].re_exported_ids : r.importee # I /\ ~is_external(r.importee)}

\* the named re-exports of I from an external module
ExternalReExports(I) == {r \in module_by_id[I].re_exported_ids : is_external(r.importee)}

RECURSIVE Declaring(_, _, _)
\* the module that declares the binding m exports as n, following at most
\* `depth` named re-exports from other normal modules; None if there is none
Declaring(m, n, depth) ==
  IF n \in LocalExports(sources.stmts, m) THEN Some(m)
  ELSE LET via == {r \in NormalReExports(m) : r.exported_as = n}
       IN IF via = {} \/ depth = 0 THEN None
          ELSE LET r == CHOOSE r \in via : TRUE
               IN Declaring(r.importee, r.imported, depth - 1)

\* C5 (as claimed): after the exports pass, for every `export {a as b} from
\* J` of a module I, J a normal module other than I that exports a,
\* I.linked_exports[b] is J's ExportedSpecifier for a; I.linked_imports has no
\* entry towards a normal module; and when the chain of named re-exports
\* ends in a module that declares the binding, that module is the owner.
C5_NamedReExportForwarding ==
  ExportsPassEnd =>
    \A I \in NormalModuleIds :
      /\ \A li \in linked_imports(I) : is_external(li.owner)
      /\ \A r \in NormalReExports(I) :
           r.imported \in DOMAIN linked_exports(r.importee) =>
             /\ r.exported_as \in DOMAIN linked_exports(I)
             /\ linked_exports(I)[r.exported_as] = linked_exports(r.importee)[r.imported]
             /\ LET d == Declaring(I, r.exported_as, Cardinality(NormalIds))
                IN d # None => linked_exports(I)[r.exported_as].owner = d[1]

\* the fresh symbols module I has created
CreatedSymbols(I, name) == {Symbol(I, name, k) : k \in 1..module_by_id[I].created_symbols}

\* C10: once the exports pass has run the named re-exports of I, for each
\* `export {x as y} from E`, E external, there is a symbol t created in I,
\* named y (x when y is "default"), with {imported: x, imported_as: t} in
\* I.linked_imports under E, used by no other linked import of I, and
\* I.linked_exports[y] = {exported_as: y, local_id: t, owner: I}.
C10_ExternalNamedReExport ==
  \A I \in NormalModuleIds : NamedReExportsDone(I) =>
    \A r \in ExternalReExports(I) :
      \E t \in CreatedSymbols(I, IF r.exported_as # "default" THEN r.exported_as
                                  ELSE r.imported) :
        /\ [owner |-> r.importee, spec |-> ImportedSpecifier(r.imported, t)]
             \in linked_imports(I)
        /\ \A li \in linked_imports(I) :
             li.spec.imported_as = t => li.owner = r.importee /\ li.spec.imported = r.imported
        /\ r.exported_as \in DOMAIN linked_exports(I)
        /\ linked_exports(I)[r.exported_as] = ExportedSpecifier(r.exported_as, t, I)

\* C10, its case: a module has re-exported a name of an external module as
\* "default", and another under a new name
C10_Witness ==
  /\ phase = "done" /\ result = Ok
  /\ \E I \in NormalModuleIds : \E r1, r2 \in ExternalReExports(I) :
       /\ r1.exported_as = "default"
       /\ r2.exported_as = "y"
       /\ linked_exports(I)["default"].local_id \in CreatedSymbols(I, r1.imported)
       /\ linked_exports(I)["y"].local_id \in CreatedSymbols(I, "y")

-----------------------------------------------------------------------------
(* Properties of the wildcard re-exports.                                  *)

\* the normal modules other than I that I names in an `export * from`
StarTargets(I) ==
  {s.j : s \in {t \in sources.stmts : t.kind = "star" /\ t.m = I
                                        /\ t.j # I /\ ~is_external(t.j)}}

\* the names I exports explicitly: its local exports and named re-exports
ExplicitNames(I) ==
  LocalExports(sources.stmts, I)
    \cup {s.as : s \in {t \in sources.stmts : t.kind = "reexport" /\ t.m = I}}

\* two `export *` targets of I disagree on the name n
Disagree(I, n) ==
  \E J1, J2 \in StarTargets(I) :
    /\ n \in DOMAIN linked_exports(J1)
    /\ n \in DOMAIN linked_exports(J2)
    /\ linked_exports(J1)[n] # linked_exports(J2)[n]

AllNames == UNION {DOMAIN linked_exports(m) : m \in NormalModuleIds}

\* C6 (as claimed): after the exports pass, a name n on which two normal
\* `export *` targets of I hold different ExportedSpecifiers, and which I
\* does not export explicitly, is not a key of I.linked_exports; and the
\* build raises no error.
C6_WildcardConflictHiding ==
  /\ ExportsPassEnd =>
       \A I \in NormalModuleIds : \A n \in AllNames :
         (Disagree(I, n) /\ n \notin ExplicitNames(I)) => n \notin DOMAIN linked_exports(I)
  /\ phase = "done" => result = Ok

\* the name n reaches I through two different `export *` targets holding
\* the identical ExportedSpecifier, and through none holding another
ReachesIdentically(I, n) ==
  /\ n # "default"
  /\ n \notin ExplicitNames(I)
  /\ ~Disagree(I, n)
  /\ \E J1, J2 \in StarTargets(I) :
       /\ J1 # J2
       /\ n \in DOMAIN linked_exports(J1)
       /\ n \in DOMAIN linked_exports(J2)

\* the specifier of n the `export *` targets of I agree on
AgreedSpecifier(I, n) ==
  linked_exports(CHOOSE J \in StarTargets(I) : n \in DOMAIN linked_exports(J))[n]

\* C27 (as claimed): after the exports pass, a name n that two different
\* `export *` targets of I hold with the identical ExportedSpecifier is a key
\* of I.linked_exports, with that specifier.
C27_IdenticalSourcesCollapse ==
  ExportsPassEnd =>
    \A I \in NormalModuleIds : \A n \in AllNames :
      ReachesIdentically(I, n) =>
        /\ n \in DOMAIN linked_exports(I)
        /\ linked_exports(I)[n] = AgreedSpecifier(I, n)

\* C9 (as claimed): after the exports pass, for all modules A, B, C with B in
\* A.re_export_all and C in B.re_export_all, C is in A.re_export_all or in
\* A.external_modules_of_re_export_all.
C9_ReExportTransitivity ==
  ExportsPassEnd =>
    \A A \in NormalModuleIds : \A B \in module_by_id[A].re_export_all :
      \A C \in module_by_id[B].re_export_all :
        C \in module_by_id[A].re_export_all
                \cup module_by_id[A].external_modules_of_re_export_all

\* the step leaves the export n of module I as it is
KeepsExport(I, n) ==
  /\ n \in DOMAIN module_by_id'[I].linked_exports
  /\ module_by_id'[I].linked_exports[n] = linked_exports(I)[n]

\* the exports pass is running and has recorded the named re-exports of I
ExplicitRecorded(I) ==
  /\ phase \in {"link_exports", "process_re_export_all"}
  /\ Position(I) <= cursor

\* a step of the exports pass, the wildcard step of I included, changes no
\* explicit export of a module I whose named re-exports are recorded
ExplicitKept ==
  \A I \in NormalModuleIds :
    ExplicitRecorded(I) =>
      \A n \in ExplicitNames(I) \cap DOMAIN linked_exports(I) : KeepsExport(I, n)

\* after the exports pass a local export of I is I's own binding, and a name
\* re-exported from an external module is owned by I
ExplicitHeld ==
  ExportsPassEnd =>
    \A I \in NormalModuleIds :
      /\ \A n \in LocalExports(sources.stmts, I) :
           /\ n \in DOMAIN linked_exports(I)
           /\ linked_exports(I)[n] = ExportedSpecifier(n, DeclaredSymbol(I, n), I)
      /\ \A r \in ExternalReExports(I) :
           /\ r.exported_as \in DOMAIN linked_exports(I)
           /\ linked_exports(I)[r.exported_as].owner = I

\* C7: an explicit export n of module I (a local export, or a named
\* re-export recorded in its exports-pass step) is changed by no `export *`
\* target of I nor by any later step of the exports pass, and after the
\* exports pass I.linked_exports[n] is I's explicit specifier, whether the
\* wildcard sources agree on n or not.
C7_ExplicitBeatsWildcard == [][ExplicitKept]_vars /\ []ExplicitHeld

\* C7, its case (S4): after the exports pass, I exports x itself and two of
\* its `export *` targets export x too, with different specifiers
C7_Witness ==
  /\ ExportsPassEnd
  /\ \E I \in NormalModuleIds :
       /\ "x" \in ExplicitNames(I)
       /\ Disagree(I, "x")
       /\ linked_exports(I)["x"].owner = I

\* the wildcard step inserts no key "default"
NoDefaultInserted ==
  phase = "process_re_export_all" =>
    \A m \in NormalModuleIds :
      "default" \in DOMAIN module_by_id'[m].linked_exports
        => "default" \in DOMAIN linked_exports(m)

\* the source of I is the one statement `export * from J`, J another normal
\* module with a default export
OnlyStarOfDefault(I) ==
  \E J \in NormalModuleIds \ {I} :
    /\ {s \in sources.stmts : s.m = I} = {Stmt("star", I, J, "", "")}
    /\ "default" \in LocalExports(sources.stmts, J)

\* C8 (as claimed): the wildcard step never inserts the key "default" into
\* an importer's linked_exports, and after link() returns Ok a module I whose
\* only statement is `export * from J`, J with a default export, has no key
\* "default" in its linked_exports.
C8_DefaultNotPropagated ==
  /\ [][NoDefaultInserted]_vars
  /\ [](LinkedOk => \A I \in NormalModuleIds :
                       OnlyStarOfDefault(I) => "default" \notin DOMAIN linked_exports(I))

\* C8 (amended): the wildcard step never inserts the key "default"; after
\* link() returns Ok such a module I has no key "default" unless
\* shim_missing_exports is enabled, and then the entry is the binding the
\* shim synthesized in I, never J's default export.
C8_DefaultOnlyByShim ==
  /\ [][NoDefaultInserted]_vars
  /\ [](LinkedOk => \A I \in NormalModuleIds :
           (OnlyStarOfDefault(I) /\ "default" \in DOMAIN linked_exports(I)) =>
             /\ input_options.shim_missing_exports
             /\ linked_exports(I)["default"].owner = I
             /\ linked_exports(I)["default"].local_id \in CreatedSymbols(I, "default"))

\* C8, its case: the wildcard step of such a module I has run on a target
\* with a default export and the build has linked
C8_Witness ==
  /\ phase = "done" /\ result = Ok
  /\ \E I \in NormalModuleIds :
       OnlyStarOfDefault(I) /\ "default" \notin DOMAIN linked_exports(I)

-----------------------------------------------------------------------------
(* Properties of the missing-export shim.                                  *)

\* the importer whose step the running pass takes next
StepImporter == order_modules[NextImporter(cursor)]

\* what the step of importer I in pass p asks of the other normal modules:
\* the names of its named re-exports (exports pass) or imports (imports pass)
Requests(I, p) ==
  IF p = "link_exports"
  THEN {[importee |-> r.importee, name |-> r.imported] : r \in NormalReExports(I)}
  ELSE {[importee |-> i.importee, name |-> i.spec.imported] :
          i \in {x \in NormalImports(I) : x.importee # I}}

\* how often w was sent to on_warn
Occurrences(ws, w) == Cardinality({i \in 1..Len(ws) : ws[i] = w})

\* the binding shim_missing_export synthesizes in J for the name n
IsShimOf(e, J, n) == e.owner = J /\ e.exported_as = n /\ e.local_id \in CreatedSymbols(J, n)

\* a step of a pass, shim enabled: each name it requests of a module J that
\* lacks it is in J.linked_exports afterwards, one ShimmedExport(n, J) more
\* has been sent, and the step returns no error
ShimOnRequest ==
  (input_options.shim_missing_exports /\ phase \in {"link_exports", "link_imports"}) =>
    \A q \in Requests(StepImporter, phase) :
      q.name \notin DOMAIN linked_exports(q.importee) =>
        /\ q.name \in DOMAIN module_by_id'[q.importee].linked_exports
        /\ Occurrences(warnings', shimmed_export(q.name, q.importee))
             = Occurrences(warnings, shimmed_export(q.name, q.importee)) + 1
        /\ result' = result

\* the exports that were requested of J stay in J.linked_exports
RequestedStay ==
  input_options.shim_missing_exports =>
    \A I \in NormalModuleIds :
      /\ NamedReExportsDone(I) =>
           \A q \in Requests(I, "link_exports") : q.name \in DOMAIN linked_exports(q.importee)
      /\ ImportsDone(I) =>
           \A q \in Requests(I, "link_imports") : q.name \in DOMAIN linked_exports(q.importee)

\* no module re-exports a name from itself
NoSelfReExport == \A s \in sources.stmts : s.kind = "reexport" => s.m # s.j

\* with the shim enabled the link of a program without self re-exports
\* returns Ok
ShimLinks ==
  (input_options.shim_missing_exports /\ NoSelfReExport /\ phase = "done") => result = Ok

\* C11: with shim_missing_exports = true, when module I imports or
\* named-re-exports a name n from a different normal module J that does not
\* export n, the link succeeds, a ShimmedExport warning for (n, J) is sent to
\* on_warn, and afterwards J.linked_exports contains n.
C11_ShimEnabled == [][ShimOnRequest]_vars /\ [](RequestedStay /\ ShimLinks)

\* C11, its case (S6): a linked build in which an import and a named
\* re-export each asked a module for a name it lacked, and got the shim
C11_Witness ==
  /\ phase = "done" /\ result = Ok
  /\ \E I \in NormalModuleIds :
       /\ \E q \in Requests(I, "link_imports") :
            /\ IsShimOf(linked_exports(q.importee)[q.name], q.importee, q.name)
            /\ Occurrences(warnings, shimmed_export(q.name, q.importee)) = 1
       /\ \E q \in Requests(I, "link_exports") :
            /\ IsShimOf(linked_exports(q.importee)[q.name], q.importee, q.name)
            /\ Occurrences(warnings, shimmed_export(q.name, q.importee)) = 1

\* the names the imports of I ask of normal modules, I itself included
ImportRequests(I) ==
  {[importee |-> i.importee, name |-> i.spec.imported] : i \in NormalImports(I)}

\* the external `export *` sources recorded for J
ExternalStarSources(J) == module_by_id[J].external_modules_of_re_export_all

\* the requests of the step of I in pass p that find nothing: a named
\* re-export of a name J lacks, or an import of a name J lacks while J has no
\* external wildcard source (a self-import has no such fallback)
MissingRequests(I, p) ==
  IF p = "link_exports"
  THEN {q \in Requests(I, p) : q.name \notin DOMAIN linked_exports(q.importee)}
  ELSE {q \in ImportRequests(I) :
          /\ q.name \notin DOMAIN linked_exports(q.importee)
          /\ (ExternalStarSources(q.importee) = {} \/ q.importee = I)}

\* a step of a pass, shim disabled, whose importer I has such a request:
\* link() returns MissingExport(n, I, J) for one of them
MissingFailsStep ==
  (~input_options.shim_missing_exports /\ phase \in {"link_exports", "link_imports"}) =>
    LET I == StepImporter
        miss == MissingRequests(I, phase)
    IN miss # {} =>
         /\ phase' = "done"
         /\ result' \in {missing_export(q.name, I, q.importee) : q \in miss}

\* the linker's handling of one such request returns MissingExport(n, I, J)
MissingFailsRequest ==
  (~input_options.shim_missing_exports /\ phase \in {"link_exports", "link_imports"}) =>
    LET I == StepImporter
        L == LinkState(module_by_id, uf, warnings, NoError)
    IN /\ phase = "link_exports" =>
            \A r \in NormalReExports(I) :
              r.imported \notin DOMAIN linked_exports(r.importee) =>
                ReExportOne(L, I, r, FALSE).err
                  = missing_export(r.imported, I, r.importee)
       /\ phase = "link_imports" =>
            \A i \in NormalImports(I) : \A h \in Perms(ExternalIds) :
              (/\ i.spec.imported \notin DOMAIN linked_exports(i.importee)
               /\ ExternalStarSources(i.importee) = {}) =>
                ImportOne(L, I, i, FALSE, h).err
                  = missing_export(i.spec.imported, I, i.importee)

\* link() does not return Ok while such a request exists
MissingNeverOk ==
  (~input_options.shim_missing_exports /\ LinkedOk) =>
    \A I \in NormalModuleIds :
      MissingRequests(I, "link_exports") = {} /\ MissingRequests(I, "link_imports") = {}

\* the import imp of I misses on a normal importee other than I that has an
\* external wildcard source, the shim being off
FallsBack(mods, I, imp) ==
  /\ ~input_options.shim_missing_exports
  /\ ~is_external(imp.importee)
  /\ imp.importee # I
  /\ find_exported(mods[imp.importee], imp.spec.imported) = None
  /\ mods[imp.importee].external_modules_of_re_export_all # {}

\* the first element of the external wildcard sources of J as the hash
\* order walks them
FirstExternal(mods, J, hash_order) ==
  hash_order[CHOOSE i \in 1..Len(hash_order) :
               /\ hash_order[i] \in mods[J].external_modules_of_re_export_all
               /\ \A k \in 1..(i - 1) :
                    hash_order[k] \notin mods[J].external_modules_of_re_export_all]

\* the effects of the fallback for the import imp of I, from the graph
\* `before` to the graph `after` with the union-find u: a symbol t new in J,
\* imported by J from E, exported by J as n; I imports n from J, bound with t
LinkedThrough(before, after, u, I, imp, E) ==
  LET J == imp.importee
      n == imp.spec.imported
  IN /\ after[J].created_symbols > before[J].created_symbols
     /\ \E k \in (before[J].created_symbols + 1)..after[J].created_symbols :
          LET t == Symbol(J, imp.spec.imported_as.name, k)
          IN /\ [owner |-> E, spec |-> ImportedSpecifier(n, t)]
                  \in after[J].linked_imports \ before[J].linked_imports
             /\ n \in DOMAIN after[J].linked_exports
             /\ after[J].linked_exports[n] = ExportedSpecifier(n, t, J)
             /\ [owner |-> J, spec |-> imp.spec]
                  \in after[I].linked_imports \ before[I].linked_imports
             /\ Same(u, imp.spec.imported_as, t)

\* the handling of one such import returns no error and links it through the
\* first external source
FallbackOfOne ==
  phase = "link_imports" =>
    LET I == StepImporter
        L == LinkState(module_by_id, uf, warnings, NoError)
    IN \A imp \in module_by_id[I].imports : \A hash_order \in Perms(ExternalIds) :
         FallsBack(module_by_id, I, imp) =>
           LET L2 == ImportOne(L, I, imp, input_options.shim_missing_exports, hash_order)
           IN /\ L2.err = NoError
              /\ LinkedThrough(module_by_id, L2.mods, L2.uf, I, imp,
                               FirstExternal(module_by_id, imp.importee, hash_order))

\* a step of the imports pass that returns no error has linked every such
\* import of its importer through one of the external sources
FallbackInStep ==
  (phase = "link_imports" /\ result' = Pending) =>
    LET I == StepImporter
    IN \A imp \in module_by_id[I].imports :
         FallsBack(module_by_id, I, imp) =>
           \E E \in module_by_id[imp.importee].external_modules_of_re_export_all :
             LinkedThrough(module_by_id, module_by_id', uf', I, imp, E)

\* a link whose imports all find their name or fall back returns Ok
FallbackSucceeds ==
  (phase = "done" /\ ~input_options.shim_missing_exports
     /\ \A I \in NormalModuleIds : \A imp \in NormalImports(I) :
          /\ imp.importee # I
          /\ \/ imp.spec.imported \in LocalExports(sources.stmts, imp.importee)
             \/ module_by_id[imp.importee].external_modules_of_re_export_all # {})
    => result = Ok

\* C28: with the shim off, an import of n by I from a normal module J other
\* than I, where J does not export n and has an external wildcard source,
\* first of them E, is linked without error: a fresh symbol t is created in
\* J, J.linked_imports[E] gains {imported: n, imported_as: t},
\* J.linked_exports[n] = {exported_as: n, local_id: t, owner: J},
\* I.linked_imports[J] gains the original specifier, and its imported_as is
\* in the class of t.
C28_ExternalWildcardFallback ==
  [][FallbackInStep]_vars /\ [](FallbackOfOne /\ FallbackSucceeds)

\* C28, its case: the link has returned Ok with an import of y from b, which
\* does not declare y, linked through b's one external wildcard source
C28_Witness ==
  /\ phase = "done" /\ result = Ok
  /\ ~input_options.shim_missing_exports
  /\ \E I \in NormalModuleIds : \E imp \in NormalImports(I) :
       LET J == imp.importee
       IN /\ J # I
          /\ imp.spec.imported \notin LocalExports(sources.stmts, J)
          /\ Cardinality(module_by_id[J].external_modules_of_re_export_all) = 1
          /\ linked_exports(J)[imp.spec.imported].owner = J
          /\ linked_exports(J)[imp.spec.imported].local_id.id = 1
          /\ [owner |-> J, spec |-> imp.spec] \in linked_imports(I)

\* C12: with shim_missing_exports = false, if module I imports a name n from
\* a normal module J that has no export n and no external wildcard source,
\* or I named-re-exports such an n from J, then link() returns the error
\* MissingExport(n, I, J) and does not return Ok.
C12_MissingExportIsError ==
  [][MissingFailsStep]_vars /\ [](MissingFailsRequest /\ MissingNeverOk)

\* C12, its case: link() has returned MissingExport for an import of a name
\* its importee lacks, and in another build for a named re-export
C12_Witness ==
  /\ phase = "done" /\ ~input_options.shim_missing_exports
  /\ \E I \in NormalModuleIds : \E q \in MissingRequests(I, "link_imports") :
       /\ q.importee # I
       /\ LocalExports(sources.stmts, q.importee) # {}
       /\ result = missing_export(q.name, I, q.importee)

\* the ShimmedExport warnings sent for module J
ShimWarningsOf(J) == {i \in 1..Len(warnings) : warnings[i].kind = "ShimmedExport"
                                                 /\ warnings[i].file = J}

\* who requests the name n of module J: [importer, pass]
Requesters(J, n) ==
  {x \in [importer : NormalModuleIds \ {J}, pass : {"link_exports", "link_imports"}] :
     [importee |-> J, name |-> n] \in Requests(x.importer, x.pass)}

\* ShimmedExport(n, J) is sent at most once, and J creates one binding per
\* warning (no other symbol is created in these programs)
ShimmedOnce ==
  \A J \in NormalModuleIds :
    /\ \A n \in SeqRange(NameOrder) : Occurrences(warnings, shimmed_export(n, J)) <= 1
    /\ module_by_id[J].created_symbols = Cardinality(ShimWarningsOf(J))

\* a step of a pass that requests of J a name J already exports: the entry
\* is found, J's entry stays as it is and no ShimmedExport(n, J) is sent
SecondRequestFinds ==
  phase \in {"link_exports", "link_imports"} =>
    \A q \in Requests(StepImporter, phase) :
      q.name \in DOMAIN linked_exports(q.importee) =>
        /\ KeepsExport(q.importee, q.name)
        /\ Occurrences(warnings', shimmed_export(q.name, q.importee))
             = Occurrences(warnings, shimmed_export(q.name, q.importee))

\* C13: when the same missing name n is requested from the same module J
\* more than once during a link, J ends with one linked_exports entry for n;
\* the second and later requests find the existing entry, do not shim again
\* and send no further ShimmedExport warning.
C13_ShimIdempotence == [][SecondRequestFinds]_vars /\ []ShimmedOnce

\* C13, its case: a linked build in which two requests asked J for the same
\* missing name, and J holds the one shim binding of the one warning
C13_Witness ==
  /\ phase = "done" /\ result = Ok
  /\ \E J \in NormalModuleIds : \E n \in SeqRange(NameOrder) :
       /\ Cardinality(Requesters(J, n)) >= 2
       /\ n \in DOMAIN linked_exports(J)
       /\ IsShimOf(linked_exports(J)[n], J, n)
       /\ module_by_id[J].created_symbols = 1
       /\ Occurrences(warnings, shimmed_export(n, J)) = 1

-----------------------------------------------------------------------------
(* Properties of the imports from external modules.                        *)

\* the imports of I from an external module
ExternalImports(I) == {imp \in module_by_id[I].imports : is_external(imp.importee)}

\* the importers whose step of the imports pass has run
ImportersDone == {I \in NormalModuleIds : ImportsDone(I)}

\* C14: if two normal modules each import the name x directly from the same
\* external module E, then after the imports pass their two imported_as
\* symbols are in the same union-find class (both unioned with E's interned
\* symbol for x), and each importer's linked_imports[E] holds its specifier
\* unchanged.
C14_ExternalSymbolInterning ==
  \A I1, I2 \in ImportersDone :
    \A i1 \in ExternalImports(I1), i2 \in ExternalImports(I2) :
      (i1.importee = i2.importee /\ i1.spec.imported = i2.spec.imported) =>
        /\ Same(uf, i1.spec.imported_as, i2.spec.imported_as)
        /\ Same(uf, i1.spec.imported_as,
                find_exported_symbol(module_by_id[i1.importee], i1.spec.imported))
        /\ [owner |-> i1.importee, spec |-> i1.spec] \in linked_imports(I1)

\* C14, its case: a linked build in which two different modules import the
\* same name from the same external module
C14_Witness ==
  /\ phase = "done" /\ result = Ok
  /\ \E I1, I2 \in NormalModuleIds :
       /\ I1 # I2
       /\ \E i1 \in ExternalImports(I1), i2 \in ExternalImports(I2) :
            /\ i1.importee = i2.importee /\ i1.spec.imported = i2.spec.imported
            /\ i1.spec.imported_as # i2.spec.imported_as
            /\ Same(uf, i1.spec.imported_as, i2.spec.imported_as)

-----------------------------------------------------------------------------
(* Properties of modules that import each other.                           *)

\* the imports of A from B of a name B declares
DeclaredImports(A, B) ==
  {imp \in module_by_id[A].imports :
     imp.importee = B /\ imp.spec.imported \in LocalExports(sources.stmts, B)}

\* A and B import a locally declared export from each other
CyclicPair(A, B) == A # B /\ DeclaredImports(A, B) # {} /\ DeclaredImports(B, A) # {}

\* every import of the program names an export its importee declares
AllImportsDeclared ==
  \A s \in sources.stmts : s.kind = "import" => s.n \in LocalExports(sources.stmts, s.j)

\* C15 (S7): for two modules a and b that import a locally declared export
\* from each other, ordering assigns both a set exec_order, link() returns Ok
\* without shim, and the union-find joins each import symbol with the
\* declaring symbol in the other module.
C15_CyclicImportsLink ==
  \A A, B \in NormalModuleIds : CyclicPair(A, B) =>
    /\ Sorted => /\ exec_order(A) # UsizeMax
                 /\ exec_order(B) # UsizeMax
                 /\ exec_order(A) # exec_order(B)
    /\ \A imp \in DeclaredImports(A, B) :
         /\ result # missing_export(imp.spec.imported, A, B)
         /\ ImportsDone(A) =>
              /\ Same(uf, imp.spec.imported_as, DeclaredSymbol(B, imp.spec.imported))
              /\ Redirected(imp, ExportedSpecifier(imp.spec.imported,
                                   DeclaredSymbol(B, imp.spec.imported), B))
                   \in linked_imports(A)
    /\ (AllImportsDeclared /\ phase = "done") => result = Ok

\* C15, its case (S7): a build without shim of two modules that import each
\* other's declared export has linked, the symbols joined
C15_Witness ==
  /\ phase = "done" /\ result = Ok /\ ~input_options.shim_missing_exports
  /\ \E A, B \in NormalModuleIds :
       /\ CyclicPair(A, B)
       /\ \A imp \in DeclaredImports(A, B) \cup DeclaredImports(B, A) :
            Same(uf, imp.spec.imported_as,
                 DeclaredSymbol(imp.importee, imp.spec.imported))

-----------------------------------------------------------------------------
(* Properties of the self re-exports.                                      *)

\* the named re-exports of I from I itself
SelfReExports(I) == {r \in module_by_id[I].re_exported_ids : r.importee = I}

\* the linker's handling of one `export {a as b} from <itself>` of the
\* importer whose step is next: with a exported, b is set to a's specifier;
\* without, CircularReExport(a, I) and nothing shimmed, shim enabled or not
SelfReExportHandled ==
  phase = "link_exports" =>
    LET I == StepImporter
        L == LinkState(module_by_id, uf, warnings, NoError)
    IN \A r \in SelfReExports(I) :
         LET L2 == ReExportOne(L, I, r, input_options.shim_missing_exports)
         IN IF r.imported \in DOMAIN linked_exports(I)
            THEN /\ L2.err = NoError
                 /\ L2.mods[I].linked_exports[r.exported_as] = linked_exports(I)[r.imported]
            ELSE /\ L2.err = circular_reexport(r.imported, I)
                 /\ L2.mods = module_by_id
                 /\ L2.warnings = warnings

\* the names I re-exports under, by name
ReExportedAs(I) == {r.exported_as : r \in module_by_id[I].re_exported_ids}

\* the step of importer I with a self re-export of a name a: when I declares
\* a and the step returns no error, b is a's specifier; when I neither
\* exports a nor re-exports anything as a, the step ends the link with an
\* error, CircularReExport of I when the shim is enabled, and I gets no shim
SelfReExportStep ==
  phase = "link_exports" =>
    LET I == StepImporter
    IN \A r \in SelfReExports(I) :
         /\ (r.imported \in LocalExports(sources.stmts, I) /\ result' = result) =>
              /\ r.exported_as \in DOMAIN module_by_id'[I].linked_exports
              /\ module_by_id'[I].linked_exports[r.exported_as]
                   = ExportedSpecifier(r.imported, DeclaredSymbol(I, r.imported), I)
         /\ (r.imported \notin DOMAIN linked_exports(I) \cup ReExportedAs(I)) =>
              /\ phase' = "done"
              /\ result'.kind \in {"CircularReExport", "MissingExport"}
              /\ input_options.shim_missing_exports =>
                   result' \in {circular_reexport(q.imported, I) : q \in SelfReExports(I)}
              /\ r.imported \notin DOMAIN module_by_id'[I].linked_exports
              /\ Occurrences(warnings', shimmed_export(r.imported, I)) = 0

\* no other re-export of I writes the name r reads or the name r writes
SoleReExport(I, r) ==
  /\ r.imported \notin ReExportedAs(I)
  /\ \A q \in module_by_id[I].re_exported_ids : q.exported_as = r.exported_as => q = r

\* after link() returns Ok a self re-export holds the specifier of the name
\* it re-exports, if no other re-export of the module wrote over either
SelfReExportLinked ==
  LinkedOk =>
    \A I \in NormalModuleIds : \A r \in SelfReExports(I) :
      SoleReExport(I, r) =>
      /\ r.imported \in DOMAIN linked_exports(I)
      /\ r.exported_as \in DOMAIN linked_exports(I)
      /\ linked_exports(I)[r.exported_as] = linked_exports(I)[r.imported]

\* C16: for `export {a as b} from <itself>` in module I, if I already exports
\* a then I.linked_exports[b] is set to that existing specifier; if I does
\* not export a, link() fails with CircularReExport(a, I), whether
\* shim_missing_exports is enabled or not (no shim is created).
C16_SelfReExport ==
  [][SelfReExportStep]_vars /\ [](SelfReExportHandled /\ SelfReExportLinked)

\* C16, its case: with the shim enabled, a module's step has set the name of
\* one self re-export to the specifier of its declared export, and failed
\* on another with CircularReExport
C16_Witness ==
  /\ phase = "done" /\ input_options.shim_missing_exports
  /\ \E I \in NormalModuleIds : \E r1, r2 \in SelfReExports(I) :
       /\ r1.imported \in LocalExports(sources.stmts, I)
       /\ r1.exported_as \in DOMAIN linked_exports(I)
       /\ linked_exports(I)[r1.exported_as] = linked_exports(I)[r1.imported]
       /\ result = circular_reexport(r2.imported, I)
       /\ r2.imported \notin DOMAIN linked_exports(I)

-----------------------------------------------------------------------------
(* Properties of two runs on the same source modules.                      *)

\* what a run leaves of a module: its order and its linked tables
Linked(mods) ==
  [m \in DOMAIN mods |-> [exec_order |-> mods[m].exec_order,
                          linked_imports |-> mods[m].linked_imports,
                          linked_exports |-> mods[m].linked_exports]]

\* two runs of link on the sorted graph, the modules having come out of
\* module_by_id in the orders p1 and p2, end alike
SameLink(p1, p2) ==
  LET L1 == LinkRun(module_by_id, p1, input_options.shim_missing_exports)
      L2 == LinkRun(module_by_id, p2, input_options.shim_missing_exports)
  IN /\ Linked(L1.mods) = Linked(L2.mods)
     /\ L1.uf = L2.uf

\* C17 (as claimed): for the same source modules and entries, any two runs,
\* whatever order the modules were inserted into the graph in, produce the
\* same exec_order, linked_imports and linked_exports for every module and
\* the same union-find partition.
C17_Determinism ==
  phase = "link" =>
    \A p1, p2 \in SortedByExecOrder(module_by_id) : SameLink(p1, p2)

-----------------------------------------------------------------------------
(* Properties of the module loader.                                        *)

NoDuplicates(s) == \A i, j \in 1..Len(s) : s[i] = s[j] => i = j

\* fetch_all_modules has returned Ok
LoadedOk == phase \notin {"fetch", "loading"} /\ loader.errors = <<>>

\* the ids the entries reach
Reachable == ReachFrom(sources.stmts, SeqRange(input_options.input))

\* C18: under every interleaving of the module tasks at most one task is
\* spawned per ModuleId, add_module is never called for an id the graph
\* holds, the graph holds each id once and holds only ids the entries
\* reach; and when the loader returns Ok the graph is every reachable id,
\* each with the module scanned from its source.
C18_ExactlyOnceLoading ==
  /\ NoDuplicates(loader.spawned)
  /\ NoDuplicates(loader.added)
  /\ SeqRange(loader.added) = DOMAIN module_by_id
  /\ \A id \in DOMAIN module_by_id : module_by_id[id].id = id
  /\ DOMAIN module_by_id \subseteq Reachable
  /\ LoadedOk => DOMAIN module_by_id = Reachable
  /\ phase = "sort_modules" =>
       module_by_id = LoadedGraph(sources.stmts, sources.order, entries)

\* both entries were scanned, the entry b is a dependency of the entry a,
\* and both depend on c
C18_Witness ==
  /\ phase = "sort_modules"
  /\ entries = <<"a", "b">>
  /\ "b" \in StaticImportees(sources.stmts, "a")
  /\ "c" \in StaticImportees(sources.stmts, "a")
  /\ "c" \in StaticImportees(sources.stmts, "b")
  /\ loader.spawned \in Perms({"a", "b", "c"})
  /\ DOMAIN module_by_id = {"a", "b", "c"}

\* fetch_all_modules has returned
Returned == phase \notin {"fetch", "loading"}

\* fetch_all_modules has returned an error
LoaderFailed == Returned /\ loader.errors # <<>>

\* the ids whose module task fails
FailedTasks == {id \in SeqRange(loader.spawned) : id \in sources.broken}

\* the module the loader hands to add_module for id
ScannedModule(id) ==
  IF is_external(id) THEN ExternalModule(id)
  ELSE NormalModule(sources.stmts, sources.order, id)

\* every task spawned has run and its message was processed: a failed task
\* left its error, any other its module, and the ids that module resolved
\* were met
InFlightComplete ==
  Returned =>
    /\ loader.tasks = {}
    /\ loader.channel = <<>>
    /\ \A id \in SeqRange(loader.spawned) :
         IF id \in sources.broken
         THEN parse_js_failed(id) \in SeqRange(loader.errors) /\ id \notin DOMAIN module_by_id
         ELSE /\ id \in DOMAIN module_by_id
              /\ StaticImportees(sources.stmts, id) \cup DynImportees(sources.stmts, id)
                   \subseteq loader.visited

\* a failed task makes the loader fail, and the error returned holds the
\* error of every failed task, once
ErrorsBatched ==
  /\ Returned /\ FailedTasks # {} => LoaderFailed
  /\ LoaderFailed =>
       /\ result = Errors(loader.errors)
       /\ SeqRange(loader.errors) = {parse_js_failed(id) : id \in FailedTasks}
       /\ Len(loader.errors) = Cardinality(FailedTasks)

\* after a failed load nothing was ordered, linked or patched
NoLaterPhase ==
  LoaderFailed =>
    /\ phase = "done"
    /\ order_modules = <<>>
    /\ uf = {}
    /\ cursor = 0
    /\ warnings = <<>>
    /\ \A id \in DOMAIN module_by_id : module_by_id[id] = ScannedModule(id)

\* C19: when a module task fails the tasks in flight still run and their
\* results are processed; the loader then returns an error holding the
\* error of every failed task, and sort_modules, link and patch do not run.
C19_ErrorAggregation == InFlightComplete /\ ErrorsBatched /\ NoLaterPhase

\* a was scanned, its dependencies b and c both failed: the error of the
\* one received second was collected after the first failure
C19_Witness ==
  /\ phase = "done"
  /\ entries = <<"a">>
  /\ sources.broken = {"b", "c"}
  /\ result \in {Errors(<<parse_js_failed("b"), parse_js_failed("c")>>),
                 Errors(<<parse_js_failed("c"), parse_js_failed("b")>>)}
  /\ DOMAIN module_by_id = {"a"}

\* the messages the task of id has sent: those waiting on the channel and
\* those the driver has consumed
MessagesOf(id) ==
  Cardinality({i \in 1..Len(loader.channel) : loader.channel[i].module_id = id})
    + Occurrences(loader.added, id)
    + Occurrences(loader.errors, parse_js_failed(id))

\* the messages the driver has consumed
Consumed ==
  Len(loader.errors)
    + Cardinality({i \in 1..Len(loader.added) : ~is_external(loader.added[i])})

\* a task that runs has sent nothing, a task that has run has sent one
\* message: Error if it failed, Scanned if not
OneMessagePerTask ==
  /\ \A n \in 1..Len(loader.spawned) :
       LET id == loader.spawned[n]
       IN MessagesOf(id) = IF [id |-> id, n |-> n] \in loader.tasks THEN 0 ELSE 1
  /\ \A i \in 1..Len(loader.channel) :
       LET msg == loader.channel[i]
       IN /\ msg.module_id \in SeqRange(loader.spawned)
          /\ msg.kind = IF msg.module_id \in sources.broken THEN "Error" ELSE "Scanned"

\* the counter is the number of spawned tasks whose message is not consumed
CounterIsInFlight ==
  /\ loader.remaining = Len(loader.spawned) - Consumed
  /\ loader.remaining = Cardinality(loader.tasks) + Len(loader.channel)

\* the loader returns at counter zero, no task running, no message waiting
ReturnsAtZero ==
  Returned => loader.remaining = 0 /\ loader.tasks = {} /\ loader.channel = <<>>

-----------------------------------------------------------------------------
(* Properties of a failing link.                                           *)

\* the errors a step of the linker returns
IsLinkError(r) == r.kind \in {"CircularReExport", "MissingExport"}

RECURSIVE ReExportsHandled(_, _, _, _)
\* the named re-exports `specs` of the importer handled one after the other
ReExportsHandled(L, importer_id, specs, shim) ==
  IF specs = <<>> THEN L
  ELSE ReExportsHandled(ReExportOne(L, importer_id, Head(specs), shim),
                        importer_id, Tail(specs), shim)

RECURSIVE ImportsHandled(_, _, _, _, _)
\* the imports `imports` of the importer handled one after the other
ImportsHandled(L, importer_id, imports, shim, hash_order) ==
  IF imports = <<>> THEN L
  ELSE ImportsHandled(ImportOne(L, importer_id, Head(imports), shim, hash_order),
                      importer_id, Tail(imports), shim, hash_order)

\* the step leaves the graph as L has it and returns L's error
StopsAt(L) ==
  /\ L.err = result'
  /\ module_by_id' = L.mods
  /\ uf' = L.uf
  /\ warnings' = L.warnings

\* a failing step of the exports pass: the specifiers before the failing one
\* were handled, the failing one gave the error returned, none after it was
\* handled; the wildcard step of the importer and the imports pass do not run
ExportsHaltAtFirstError ==
  (phase = "link_exports" /\ result' # result) =>
    LET I == StepImporter
        L == LinkState(module_by_id, uf, warnings, NoError)
        shim == input_options.shim_missing_exports
    IN /\ IsLinkError(result')
       /\ phase' = "done"
       /\ uf' = {}
       /\ \E specs \in GroupedOrders(module_by_id[I].re_exported_ids) :
            \E k \in 1..Len(specs) :
              LET Lk == ReExportsHandled(L, I, SubSeq(specs, 1, k - 1), shim)
              IN Lk.err = NoError /\ StopsAt(ReExportOne(Lk, I, specs[k], shim))

\* a step of the exports pass that goes on has handled every specifier
\* without an error
ExportsGoOnWithoutError ==
  (phase = "link_exports" /\ phase' = "process_re_export_all") =>
    LET I == StepImporter
        L == LinkState(module_by_id, uf, warnings, NoError)
        shim == input_options.shim_missing_exports
    IN \E specs \in GroupedOrders(module_by_id[I].re_exported_ids) :
         /\ \A k \in 1..Len(specs) :
              ReExportsHandled(L, I, SubSeq(specs, 1, k), shim).err = NoError
         /\ module_by_id' = ReExportsHandled(L, I, specs, shim).mods

\* a failing step of the imports pass, likewise; patch does not run
ImportsHaltAtFirstError ==
  (phase = "link_imports" /\ result' # result) =>
    LET I == order_modules[NextImporter(cursor)]
        L == LinkState(module_by_id, uf, warnings, NoError)
        shim == input_options.shim_missing_exports
    IN /\ IsLinkError(result')
       /\ phase' = "done"
       /\ \E imports \in ImportOrders(module_by_id[I].imports, I),
             hash_order \in Perms(ExternalIds) :
            \E k \in 1..Len(imports) :
              LET Lk == ImportsHandled(L, I, SubSeq(imports, 1, k - 1), shim, hash_order)
              IN Lk.err = NoError /\ StopsAt(ImportOne(Lk, I, imports[k], shim, hash_order))

\* a step of the imports pass that goes on has handled every import without
\* an error
ImportsGoOnWithoutError ==
  (phase = "link_imports" /\ phase' # "done") =>
    LET I == order_modules[NextImporter(cursor)]
        L == LinkState(module_by_id, uf, warnings, NoError)
        shim == input_options.shim_missing_exports
    IN \E imports \in ImportOrders(module_by_id[I].imports, I),
          hash_order \in Perms(ExternalIds) :
         /\ \A k \in 1..Len(imports) :
              ImportsHandled(L, I, SubSeq(imports, 1, k), shim, hash_order).err = NoError
         /\ module_by_id' = ImportsHandled(L, I, imports, shim, hash_order).mods

\* once generate_module_graph has returned nothing runs; an error of the
\* linker is the value returned
ReturnIsFinal == phase # "done" /\ result = Pending

ErrorReturned == IsLinkError(result) => phase = "done"

\* C21: as soon as the handling of one specifier in the exports pass or the
\* imports pass yields CircularReExport or MissingExport, link() returns that
\* error: no later specifier and no later module is processed, the imports
\* pass does not start after a failed exports pass, and patch does not run.
C21_LinkerHaltsAtFirstError ==
  /\ [][/\ ExportsHaltAtFirstError /\ ExportsGoOnWithoutError
        /\ ImportsHaltAtFirstError /\ ImportsGoOnWithoutError
        /\ ReturnIsFinal]_vars
  /\ []ErrorReturned

\* the exports pass has failed at a module that is followed in order_modules
\* by a module with a named re-export, which stays unlinked; nothing was
\* unioned
C21_Witness ==
  /\ phase = "done"
  /\ IsLinkError(result)
  /\ uf = {}
  /\ \E m \in NormalModuleIds :
       /\ Position(m) > cursor
       /\ \E r \in module_by_id[m].re_exported_ids :
            r.exported_as \notin DOMAIN linked_exports(m)
  /\ \E m \in NormalModuleIds : module_by_id[m].imports # {} /\ linked_imports(m) = {}

-----------------------------------------------------------------------------
(* Properties of the plugin hooks.                                         *)

\* a hook has returned
Dispatched(hook) == plugin_driver.ret # Pending /\ plugin_driver.ret.hook = hook

\* the plugins called, in the order of the calls
Called == [i \in 1..Len(plugin_driver.calls) |-> plugin_driver.calls[i].plugin]

\* the first plugin that does not answer None to the hook; one past the last
\* plugin if there is none
FirstAnswering(hook) ==
  LET ps == plugin_driver.plugins
      answering == {k \in 1..Len(ps) : ps[k][hook] # "None"}
  IN IF answering = {} THEN Len(ps) + 1
     ELSE CHOOSE k \in answering : \A j \in answering : k <= j

\* the first plugin whose transform fails; one past the last if none does
FirstFailing ==
  LET ps == plugin_driver.plugins
      failing == {k \in 1..Len(ps) : ps[k].transform = "Err"}
  IN IF failing = {} THEN Len(ps) + 1
     ELSE CHOOSE k \in failing : \A j \in failing : k <= j

\* the plugins before k that rewrote the code, in registration order
RECURSIVE RewritesBefore(_)
RewritesBefore(k) ==
  IF k <= 1 THEN <<>>
  ELSE IF plugin_driver.plugins[k - 1].transform = "Some"
  THEN Append(RewritesBefore(k - 1), k - 1)
  ELSE RewritesBefore(k - 1)

\* the loader as the plugins before k left it
RECURSIVE LoaderBefore(_)
LoaderBefore(k) ==
  IF k <= 1 THEN "Js"
  ELSE IF plugin_driver.plugins[k - 1].set_loader # "keep"
  THEN plugin_driver.plugins[k - 1].set_loader
  ELSE LoaderBefore(k - 1)

\* load and resolve: the plugins are called in registration order up to the
\* first that answers, none after it; its Some or its error is the result,
\* and the result is None when none answers
FirstSomeWins(hook) ==
  Dispatched(hook) =>
    LET ps == plugin_driver.plugins
        k == FirstAnswering(hook)
        n == IF k <= Len(ps) THEN k ELSE Len(ps)
        ret == plugin_driver.ret.out.ret
    IN /\ Called = [i \in 1..n |-> i]
       /\ IF k > Len(ps) THEN ret = OkOf(None)
          ELSE IF ps[k][hook] = "Err" THEN ret = Err(k)
          ELSE /\ ret.kind = "Ok" /\ ret.value # None
               /\ ret.value[1].by = k

\* transform: every plugin up to the first failing one is called in
\* registration order, each handed the code and the loader as the plugins
\* before it left them; the result is the code after the last plugin, the
\* input code if no plugin rewrote it, or the first error
TransformInSequence ==
  Dispatched("transform") =>
    LET ps == plugin_driver.plugins
        k == FirstFailing
        n == IF k <= Len(ps) THEN k ELSE Len(ps)
        ret == plugin_driver.ret.out.ret
    IN /\ Called = [i \in 1..n |-> i]
       /\ \A i \in 1..n :
            /\ plugin_driver.calls[i].code = RewritesBefore(i)
            /\ plugin_driver.calls[i].loader = LoaderBefore(i)
       /\ IF k <= Len(ps) THEN ret = Err(k)
          ELSE /\ ret = OkOf(RewritesBefore(Len(ps) + 1))
               /\ plugin_driver.ret.out.loader = LoaderBefore(Len(ps) + 1)

\* C22: plugins are consulted in registration order; load and resolve return
\* the result of the first plugin returning Some and call no later plugin;
\* transform calls every plugin in order, each handed the code and loader as
\* the previous one left them, a plugin returning None leaving the code as it
\* is; with no plugin answering load and resolve return None and transform
\* the input code; an error of a plugin ends the dispatch with that error.
C22_PluginDispatch ==
  FirstSomeWins("load") /\ FirstSomeWins("resolve") /\ TransformInSequence

\* load has returned the output of the first of two plugins that both
\* answer Some, and the second was not called
C22_Witness ==
  /\ Dispatched("load")
  /\ Len(plugin_driver.plugins) = 2
  /\ plugin_driver.plugins[1].load = "Some"
  /\ plugin_driver.plugins[2].load = "Some"
  /\ plugin_driver.ret.out.ret = OkOf(Some(LoadOutput(1)))
  /\ Called = <<1>>

-----------------------------------------------------------------------------
(* Properties of the warnings.                                             *)

WarningsSent == SeqRange(warnings)

\* the handling of one specifier that sends a warning returns no error
WarningWithoutError ==
  /\ phase = "link_imports" =>
       LET I == StepImporter
           L == LinkState(module_by_id, uf, warnings, NoError)
       IN \A imp \in module_by_id[I].imports : \A hash_order \in Perms(ExternalIds) :
            LET L2 == ImportOne(L, I, imp, input_options.shim_missing_exports, hash_order)
            IN L2.warnings # warnings =>
                 /\ L2.err = NoError
                 /\ \E li \in L2.mods[I].linked_imports :
                      li.spec.imported_as = imp.spec.imported_as
  /\ phase = "link_exports" =>
       LET I == StepImporter
           L == LinkState(module_by_id, uf, warnings, NoError)
       IN \A r \in module_by_id[I].re_exported_ids :
            LET L2 == ReExportOne(L, I, r, input_options.shim_missing_exports)
            IN L2.warnings # warnings => L2.err = NoError

\* an import of I that misses on a normal importee with more than one
\* external wildcard source has sent the warning that names the importee,
\* one of its external sources as the chosen one and all of them as the
\* candidates, and is linked through that source
AmbiguousWarned ==
  \A I \in NormalModuleIds : ImportsDone(I) =>
    \A imp \in NormalImports(I) :
      LET J == imp.importee
          externals == module_by_id[J].external_modules_of_re_export_all
      IN (J # I /\ imp.spec.imported \notin LocalExports(sources.stmts, J)
            /\ ~input_options.shim_missing_exports /\ Cardinality(externals) > 1) =>
           \E chosen \in externals :
             /\ ambiguous_external_namespaces(imp.spec.imported_as.name, J, chosen, externals)
                  \in WarningsSent
             /\ \E li \in linked_imports(J) :
                  li.owner \in externals /\ li.spec.imported = imp.spec.imported
             /\ [owner |-> J, spec |-> imp.spec] \in linked_imports(I)

\* every warning is a ShimmedExport or an AmbiguousExternalNamespaces whose
\* chosen module is one of its candidates, the external sources of the
\* importee; an error returned is not about a name a warning was sent for
WarningsAreNotErrors ==
  /\ \A w \in WarningsSent :
       \/ w.kind = "ShimmedExport"
       \/ /\ w.kind = "AmbiguousExternalNamespaces"
          /\ w.chosen \in w.candidates
          /\ Cardinality(w.candidates) > 1
          /\ w.candidates = module_by_id[w.importee].external_modules_of_re_export_all
  /\ IsLinkError(result) =>
       \A w \in WarningsSent :
         /\ w.kind = "ShimmedExport" => result # missing_export(w.name, result.importer, w.file)
         /\ w.kind = "AmbiguousExternalNamespaces" =>
              ~(result.importee = w.importee
                  /\ w.name = ImportBinding(result.importer, result.importee, result.name).name)

\* where every import finds its name, a shim or an external source, the
\* link returns Ok, whatever warnings were sent
CoveredLinkSucceeds ==
  (phase = "done"
     /\ \A I \in NormalModuleIds : \A imp \in NormalImports(I) :
          \/ imp.spec.imported \in LocalExports(sources.stmts, imp.importee)
          \/ input_options.shim_missing_exports
          \/ module_by_id[imp.importee].external_modules_of_re_export_all # {})
    => result = Ok

\* C23: a warning never aborts: an import that misses on an importee with
\* more than one external wildcard source sends AmbiguousExternalNamespaces,
\* naming the chosen external module and all candidates, and the link goes
\* on to success; a ShimmedExport warning never makes link() fail either.
C23_WarningsNeverAbort ==
  WarningWithoutError /\ AmbiguousWarned /\ WarningsAreNotErrors /\ CoveredLinkSucceeds

\* the build has returned Ok after an AmbiguousExternalNamespaces warning
C23_Witness ==
  /\ phase = "done" /\ result = Ok
  /\ \E w \in WarningsSent :
       /\ w.kind = "AmbiguousExternalNamespaces"
       /\ w.candidates = ExternalIds
       /\ \E I \in NormalModuleIds :
            [owner |-> w.importee,
             spec |-> ImportedSpecifier("y", ImportBinding(I, w.importee, "y"))]
              \in linked_imports(I)
-----------------------------------------------------------------------------
(* Properties of the self-imports.                                         *)

\* the self-imports of I
SelfImports(I) == {imp \in module_by_id[I].imports : imp.importee = I}

\* the handling of one self-import of the running importer is the handling
\* of an import from another normal module, with the module in both places
SelfAsCrossModule ==
  phase = "link_imports" =>
    LET I == StepImporter
        L == LinkState(module_by_id, uf, warnings, NoError)
        shim == input_options.shim_missing_exports
    IN \A imp \in SelfImports(I) : \A hash_order \in Perms(ExternalIds) :
         ImportFromSelf(L, I, imp.spec, shim)
           = ImportFromNormal(L, I, I, imp.spec, shim, hash_order)

\* the step of an importer handles its self-imports sorted by `imported`:
\* when it fails on one, the self-imports of smaller names are linked
SelfImportsSorted ==
  (phase = "done" /\ IsLinkError(result) /\ result.importer = result.importee) =>
    \A imp \in SelfImports(result.importer) :
      NameRank(imp.spec.imported) < NameRank(result.name) =>
        \E li \in linked_imports(result.importer) :
          li.spec.imported_as = imp.spec.imported_as

\* C29 (as claimed): a self-import is linked by the rules of an import from
\* another normal module (namespace marking, shim, union and owner-keyed
\* linked_imports on a hit, the external-wildcard fallback on a miss of a
\* module with external wildcard sources, MissingExport otherwise), written
\* onto the module itself, the specifiers taken sorted by `imported`.
C29_SelfImportEquivalence == SelfAsCrossModule /\ SelfImportsSorted
-----------------------------------------------------------------------------
(* Properties of the symbol union-find.                                    *)

\* a step outside the imports pass leaves the union-find as it is
UnionOnlyInImportsPass == phase # "link_imports" => uf' = uf

\* a step of the imports pass only merges classes
ImportsPassMerges ==
  phase = "link_imports" => \A c \in uf : \E d \in uf' : c \subseteq d

\* until the imports pass begins no two symbols are unified
NoUnionBeforeImports ==
  (phase \in {"fetch", "loading", "sort_modules", "link", "link_exports",
              "process_re_export_all"} \/ ExportsPassEnd)
    => uf = {}

\* patch leaves the union-find as the imports pass left it
PatchKeeps == phase = "patch" => uf' = uf

\* C30: the loader, sort_modules, every step of the exports pass (those that
\* create a fresh symbol for an external re-export or a shim included) and
\* patch leave the symbol union-find unchanged; only steps of the imports
\* pass perform a union.
C30_UnionFindFrame ==
  /\ [][UnionOnlyInImportsPass /\ ImportsPassMerges /\ PatchKeeps]_vars
  /\ []NoUnionBeforeImports

\* C30, its case: the exports pass has ended, having created a symbol for
\* a re-export from an external module and a shim, without any union
C30_Witness ==
  /\ ExportsPassEnd
  /\ uf = {}
  /\ \E w \in SeqRange(warnings) : w.kind = "ShimmedExport"
  /\ \E m \in NormalModuleIds : \E r \in ExternalReExports(m) :
       /\ r.exported_as \in DOMAIN linked_exports(m)
       /\ linked_exports(m)[r.exported_as].local_id.id > 0

\* ExternalModule::find_exported_symbol over the graph: the interned symbols
\* of the (external module, imported name) pairs
InternedSymbols ==
  {find_exported_symbol(module_by_id[E], n) :
     E \in {m \in ModuleIds : is_external(m)}, n \in {"x", "y"}}

\* C31: no union-find class contains the interned symbols of two different
\* (external module, imported name) pairs, each import binding standing in
\* one import specifier: symbols of different external modules, or of
\* different names of one external module, are never merged.
C31_NoExternalMerge ==
  \A c \in uf : Cardinality(c \cap InternedSymbols) <= 1

\* C31, its case: the link has returned Ok with two names of one external
\* module and a name of another imported, each in a class of its own
C31_Witness ==
  /\ phase = "done" /\ result = Ok
  /\ \E c1, c2, c3 \in uf :
       /\ c1 # c2 /\ c1 # c3 /\ c2 # c3
       /\ Symbol("E", "x", 0) \in c1
       /\ Symbol("E", "y", 0) \in c2
       /\ Symbol("F", "x", 0) \in c3

-----------------------------------------------------------------------------
(* Properties of the order of the phases and of the passes.                *)

\* the phases a phase can hand over to
NextPhases(p) ==
  CASE p = "fetch" -> {"loading"}
    [] p = "loading" -> {"loading", "sort_modules", "done"}
    [] p = "sort_modules" -> {"link"}
    [] p = "link" -> {"link_exports"}
    [] p = "link_exports" -> {"process_re_export_all", "done"}
    [] p = "process_re_export_all" -> {"link_exports", "link_imports"}
    [] p = "link_imports" -> {"link_imports", "patch", "done"}
    [] p = "patch" -> {"done"}
    [] OTHER -> {}

\* load, sort_modules, the exports pass, the imports pass and patch follow
\* each other; an error ends the build
PhasesInSequence ==
  /\ phase' \in NextPhases(phase)
  /\ phase' = "done" =>
       \/ phase = "patch" /\ result' = Ok
       \/ phase # "patch" /\ result' # Ok /\ result' # Pending

\* the importer an exports-pass step works on
ExportsStepImporter ==
  IF phase = "link_exports" THEN StepImporter ELSE order_modules[cursor]

\* the passes walk order_modules, which holds every module once in
\* ascending exec_order, and skip no normal module
PassesAscending ==
  /\ phase \in {"link_exports", "process_re_export_all", "link_imports"} =>
       /\ SeqRange(order_modules) = ModuleIds
       /\ Len(order_modules) = Cardinality(ModuleIds)
       /\ \A i, j \in 1..Len(order_modules) :
            i < j => exec_order(order_modules[i]) <= exec_order(order_modules[j])
  /\ (phase \in {"link_exports", "link_imports"} /\ phase' # "done") =>
       /\ ~is_external(order_modules[NextImporter(cursor)])
       /\ \A k \in (cursor + 1)..(NextImporter(cursor) - 1) : is_external(order_modules[k])
       /\ phase = "link_exports" => cursor' = NextImporter(cursor)
       /\ phase = "link_imports" =>
            \/ cursor' = NextImporter(cursor)
            \/ phase' = "patch" /\ ~HasNextImporter(NextImporter(cursor))

\* the imports pass begins when the exports pass has handled the last
\* normal module
ImportsAfterExports ==
  (phase # "link_imports" /\ phase' = "link_imports") =>
    /\ phase = "process_re_export_all"
    /\ ~HasNextImporter(cursor)
    /\ cursor' = 0

\* a step of the exports pass leaves the linked_exports of every normal
\* module of lower exec_order than its importer as they are
LowerExportsFinal ==
  phase \in {"link_exports", "process_re_export_all"} =>
    \A J \in NormalModuleIds :
      exec_order(J) < exec_order(ExportsStepImporter) =>
        /\ Position(J) < Position(ExportsStepImporter)
        /\ module_by_id'[J].linked_exports = linked_exports(J)

\* the same with the shim off; with the shim on such a module keeps the
\* exports it has and may gain a shimmed name
LowerExportsKept ==
  phase \in {"link_exports", "process_re_export_all"} =>
    \A J \in NormalModuleIds :
      exec_order(J) < exec_order(ExportsStepImporter) =>
        /\ Position(J) < Position(ExportsStepImporter)
        /\ \A n \in DOMAIN linked_exports(J) :
             /\ n \in DOMAIN module_by_id'[J].linked_exports
             /\ module_by_id'[J].linked_exports[n] = linked_exports(J)[n]
        /\ \A n \in DOMAIN module_by_id'[J].linked_exports \ DOMAIN linked_exports(J) :
             /\ input_options.shim_missing_exports
             /\ module_by_id'[J].linked_exports[n].owner = J
             /\ module_by_id'[J].linked_exports[n].local_id \in CreatedSymbols(J, n)'

\* C32 (as claimed): the build runs load, sort_modules, the exports pass,
\* the imports pass and patch in that sequence; both passes visit the normal
\* modules in ascending exec_order; the imports pass begins after the
\* exports pass has handled every module; and when the exports pass handles
\* a module the linked_exports of every module of lower exec_order are
\* final.
C32_PhaseAndPassOrdering ==
  [][PhasesInSequence /\ PassesAscending /\ ImportsAfterExports /\ LowerExportsFinal]_vars

\* C32 (amended): the same, the linked_exports of a module of lower
\* exec_order being final when shim_missing_exports is off; when it is on,
\* a later step may add a shimmed name of that module to them and changes
\* none of their entries.
C32_PhaseAndPassOrderingAmended ==
  [][PhasesInSequence /\ PassesAscending /\ ImportsAfterExports /\ LowerExportsKept]_vars

\* C32, its case: the exports pass is handling a module that re-exports a
\* name from a module of lower exec_order, whose export it has taken over
C32_Witness ==
  /\ phase = "process_re_export_all"
  /\ \E r \in NormalReExports(order_modules[cursor]) :
       /\ exec_order(r.importee) < exec_order(order_modules[cursor])
       /\ r.imported \in DOMAIN linked_exports(r.importee)
       /\ r.exported_as \in DOMAIN linked_exports(order_modules[cursor])
       /\ linked_exports(order_modules[cursor])[r.exported_as]
            = linked_exports(r.importee)[r.imported]

-----------------------------------------------------------------------------
(* Properties of the dependency resolution of one module task.             *)

\* the task of this behaviour reached the resolution
Resolves == module_task.plan \in {"Js", "Ts"}

\* the dependency specifiers of the task, static then dynamic
TaskDependencies ==
  module_task.scan_result.dependencies \o module_task.scan_result.dyn_dependencies

\* what the resolution of a specifier of the task yields
ResolutionOf(specifier) == resolve_id(specifier, module_task.cases[specifier])

\* the positions of the dependencies whose resolution fails
FailingDependencies ==
  {i \in 1..Len(TaskDependencies) : ResolutionOf(TaskDependencies[i]).kind = "Err"}

\* the specifier -> ModuleId map, from the inputs of the task alone
ResolvedIdsOfInputs ==
  [s \in {TaskDependencies[i] : i \in 1..Len(TaskDependencies)} |->
     ResolutionOf(s).value]

\* one job per dependency is spawned before any is awaited, and the task
\* returns from the resolution only when every job has finished
WaitsForAll ==
  /\ module_task.pc = "run" /\ module_task'.pc = "resolving" =>
       /\ Len(module_task'.jobs) = Len(TaskDependencies)
       /\ \A i \in 1..Len(TaskDependencies) :
            /\ module_task'.jobs[i].specifier = TaskDependencies[i]
            /\ module_task'.jobs[i].handle = Pending
  /\ module_task.pc = "resolving" /\ module_task'.pc = "returned" =>
       /\ Len(module_task.finished) = Len(TaskDependencies)
       /\ \A i \in 1..Len(module_task.jobs) : module_task.jobs[i].handle # Pending

\* what the task returns is a function of its inputs, whatever the order the
\* jobs finished in: the whole map, or every failure
SameForEveryOrder ==
  Resolves /\ module_task.pc \in {"returned", "sent"} =>
    IF FailingDependencies = {}
    THEN module_task.ret = OkOf([resolved_ids |-> ResolvedIdsOfInputs])
    ELSE /\ module_task.ret.kind = "Errors"
         /\ Len(module_task.ret.errors) = Cardinality(FailingDependencies)
         /\ \A i \in FailingDependencies :
              \E k \in 1..Len(module_task.ret.errors) :
                module_task.ret.errors[k] = ResolveError(TaskDependencies[i])

\* a failing resolution sends the error and no Scanned message; only a
\* whole map is ever sent
NoPartialScanned ==
  /\ Len(module_task.sent) <= 1
  /\ \A k \in 1..Len(module_task.sent) :
       /\ Resolves /\ FailingDependencies # {} =>
            module_task.sent[k] = MsgError(module_task.ret)
       /\ module_task.sent[k].kind = "Scanned" =>
            /\ Resolves /\ FailingDependencies = {}
            /\ module_task.sent[k].result.resolved_ids = ResolvedIdsOfInputs

\* C33: the dependency resolution of one module task spawns one resolve job
\* per static and dynamic specifier and waits for all of them; the
\* specifier -> ModuleId map it returns is the same for every completion
\* order of the jobs; when resolutions fail the task returns an error holding
\* every failure, and no Scanned message with a partial map is sent.
C33_ResolveDependencies ==
  [][WaitsForAll]_vars /\ [](SameForEveryOrder /\ NoPartialScanned)

\* a task of two dependencies whose jobs finished in the reverse of the
\* spawning order, both failing, has sent its error
C33_Witness ==
  /\ module_task.pc = "sent"
  /\ module_task.finished = <<2, 1>>
  /\ Cardinality(FailingDependencies) = 2
  /\ module_task.sent = <<MsgError(Errors(<<ResolveError(TaskDependencies[1]),
                                            ResolveError(TaskDependencies[2])>>))>>

-----------------------------------------------------------------------------
(* Properties of the external bit of a resolved dependency.                *)

\* the jobs of the task that resolved to a ModuleId
ResolvedJobs ==
  {i \in 1..Len(module_task.jobs) : module_task.jobs[i].handle.kind = "Ok"}

\* the answers of the collaborators for the specifier of job i
CaseOf(i) == module_task.cases[module_task.jobs[i].specifier]

\* the bit the ModuleId of job i is to carry
ExternalExpected(i) ==
  \/ CaseOf(i).raw = "Yes"
  \/ CaseOf(i).found = "PluginExternal"
  \/ CaseOf(i).found = "Nothing"
  \/ CaseOf(i).found \in {"Plugin", "PluginExternal", "Path"} /\ CaseOf(i).res = "Yes"

\* the id of job i is the raw specifier when the predicate accepts it or
\* when nothing is found, and the resolved id otherwise
IdExpected(i) ==
  LET specifier == module_task.jobs[i].specifier IN
  IF CaseOf(i).raw = "Yes" \/ CaseOf(i).found = "Nothing" THEN specifier
  ELSE resolve_id_with_plugins(specifier, CaseOf(i)).value[1].id

\* C34: the ModuleId of a resolved dependency is external when the user
\* predicate accepts the raw specifier (the id is then the raw specifier),
\* when a plugin's resolve result carries external = true, when the user
\* predicate accepts the resolved id, or when resolution finds nothing (the
\* id is then the raw specifier); otherwise it is the resolved id with
\* external = false.
C34_ExternalBit ==
  \A i \in ResolvedJobs :
    /\ module_task.jobs[i].handle.value.id = IdExpected(i)
    /\ module_task.jobs[i].handle.value.external = ExternalExpected(i)

-----------------------------------------------------------------------------
(* Properties of a module whose loader is Json.                            *)

\* the task has left the parse step
PastParse == module_task.pc \notin {"idle", "run"}

\* the task ended by returning an error, which run sends as its one message
EndsWithError ==
  /\ module_task.pc \in {"returned", "sent"}
  /\ module_task.ret.kind \notin {"Ok", "pending"}
  /\ module_task.pc = "sent" => module_task.sent = <<MsgError(module_task.ret)>>

\* C35: a module whose selected loader is Json is rejected at the parse
\* step: the task ends with an error that run sends upstream as one Error
\* message, as for any other failure of the task, and does not end without
\* a message.
C35_JsonRejected ==
  module_task.plan = "Json" /\ PastParse => EndsWithError

-----------------------------------------------------------------------------
(* Properties of the link with the shim enabled.                           *)

\* link() has not returned MissingExport
NoMissingExport == result.kind # "MissingExport"

\* no AmbiguousExternalNamespaces warning was sent
NoAmbiguousWarning ==
  \A i \in 1..Len(warnings) : warnings[i].kind # "AmbiguousExternalNamespaces"

\* no normal module imports from an external module what the fallback links:
\* none of these programs imports from an external module itself
NoFallbackEntry ==
  \A J \in NormalModuleIds :
    /\ \A e \in linked_imports(J) : ~is_external(e.owner)
    /\ \A n \in DOMAIN linked_exports(J) :
         ~is_external(linked_exports(J)[n].owner)

\* the names J is asked for by the steps taken so far, by modules other than
\* J, that J neither declares nor re-exports
ShimmedNames(J) ==
  {n \in {"x", "y"} :
     /\ n \notin LocalExports(sources.stmts, J)
     /\ \A r \in NormalReExports(J) : r.exported_as # n
     /\ \E i \in 1..Len(warnings) : warnings[i] = shimmed_export(n, J)}

\* a name missing from J is bound to a binding created in J, owned by J
MissingIsShimmed ==
  /\ \A J \in NormalModuleIds : \A n \in ShimmedNames(J) :
       /\ n \in DOMAIN linked_exports(J)
       /\ linked_exports(J)[n].owner = J
       /\ linked_exports(J)[n].local_id.owner = J
  /\ (phase = "done" /\ result = Ok) =>
       \A I \in NormalModuleIds : \A q \in Requests(I, "link_imports") :
         /\ q.name \in DOMAIN linked_exports(q.importee)
         /\ ~is_external(linked_exports(q.importee)[q.name].owner)
         /\ (q.name \notin LocalExports(sources.stmts, q.importee)
               /\ NormalReExports(q.importee) = {})
              => q.name \in ShimmedNames(q.importee)

\* C36: with shim_missing_exports enabled, no import or named re-export
\* against a normal module other than the importer fails with MissingExport
\* and the external-wildcard fallback is never taken: a name missing from a
\* module that has `export * from <external>` is bound to a shim binding
\* owned by that module, no linked_imports entry toward the external module
\* is created and no AmbiguousExternalNamespaces warning is sent.
C36_ShimPrecedesFallback ==
  input_options.shim_missing_exports =>
    NoMissingExport /\ NoAmbiguousWarning /\ NoFallbackEntry /\ MissingIsShimmed

\* C36, its case: the link returned Ok on a program importing y from a module
\* that lacks y and has two external wildcard sources
C36_Witness ==
  /\ phase = "done" /\ result = Ok /\ input_options.shim_missing_exports
  /\ \E I \in NormalModuleIds : \E q \in Requests(I, "link_imports") :
       /\ q.name \in ShimmedNames(q.importee)
       /\ Cardinality(ExternalStarSources(q.importee)) = 2

-----------------------------------------------------------------------------
(* Properties of repeated imports through the external-wildcard fallback.  *)

\* what the fallback made J import from an external module for the name n
FallbackImports(J, n) ==
  {e \in linked_imports(J) : is_external(e.owner) /\ e.spec.imported = n}

\* the names J exports with a symbol the linker created in J
SynthesizedNames(J) ==
  {n \in DOMAIN linked_exports(J) :
     linked_exports(J)[n].owner = J /\ linked_exports(J)[n].local_id.id > 0}

\* J holds one created symbol and one import from an external module per
\* name the fallback resolved, however many imports asked for the name
OneSymbolPerName ==
  \A J \in NormalModuleIds :
    /\ module_by_id[J].created_symbols = Cardinality(SynthesizedNames(J))
    /\ \A n \in SeqRange(NameOrder) :
         /\ Cardinality(FallbackImports(J, n)) <= 1
         /\ FallbackImports(J, n) # {} <=> n \in SynthesizedNames(J)
         /\ \A e \in FallbackImports(J, n) :
              e.spec.imported_as = linked_exports(J)[n].local_id

\* a step of the imports pass leaves alone the modules that export the
\* name asked of them since an earlier step: no symbol, no import from an
\* external module and no other export entry is made in them
LaterImportHits ==
  phase = "link_imports" =>
    \A J \in NormalModuleIds : \A n \in SynthesizedNames(J) :
      /\ linked_exports(J)'[n] = linked_exports(J)[n]
      /\ FallbackImports(J, n)' = FallbackImports(J, n)
      /\ (\A q \in Requests(StepImporter, "link_imports") :
            q.importee = J => q.name = n)
           => module_by_id'[J].created_symbols = module_by_id[J].created_symbols

\* the imports of n from J that the steps taken so far have linked
LinkedImportsOf(J, n) ==
  {x \in [importer : NormalModuleIds \ {J}, imp : UNION {NormalImports(I) : I \in NormalModuleIds}] :
     /\ x.imp \in NormalImports(x.importer)
     /\ x.imp.importee = J /\ x.imp.spec.imported = n
     /\ [owner |-> J, spec |-> x.imp.spec] \in linked_imports(x.importer)}

\* every linked import of a name the fallback resolved is bound with the one
\* symbol created for it in J
AllInOneClass ==
  \A J \in NormalModuleIds : \A n \in SynthesizedNames(J) :
    \A x \in LinkedImportsOf(J, n) :
      Same(uf, x.imp.spec.imported_as, linked_exports(J)[n].local_id)

\* C37: the external-wildcard fallback synthesizes at most one symbol per
\* (importee, name): once the first importer's miss on n has added n to the
\* importee's linked_exports, every later import of n from that importee, by
\* the same or another importer, hits that entry, creates no further symbol
\* and no further linked_imports entry toward the external module, and its
\* imported_as is in the union-find class of the first importer's.
C37_FallbackOnce ==
  [][LaterImportHits]_vars /\ [](OneSymbolPerName /\ AllInOneClass)

\* C37, its case: two modules import y from a third that lacks it and has an
\* external wildcard source; the link returned Ok with one symbol created
C37_Witness ==
  /\ phase = "done" /\ result = Ok
  /\ \E J \in NormalModuleIds :
       /\ module_by_id[J].created_symbols = 1
       /\ \E x, z \in LinkedImportsOf(J, "y") :
            /\ x.importer # z.importer
            /\ Same(uf, x.imp.spec.imported_as, z.imp.spec.imported_as)
====
